---------------------------- MODULE Spec2Model ----------------------------
(***************************************************************************)
(* A model of the VKB bridge: the capture loop and pacer/transmitter of    *)
(* the Linux sender (single-device crates/linux-sender and multi-device    *)
(* linux-producer/crates/linux-sender), the UDP channel between the hosts, *)
(* and the receive loop of crates/windows-receiver (decoder, sequence gate *)
(* and state applicator).                                                  *)
(*                                                                         *)
(* Rust arrays are 0-based, TLA+ sequences 1-based: data[i] of the source  *)
(* is data[i+1] here, axis slot i is slot i+1.                             *)
(***************************************************************************)
EXTENDS Integers, Sequences, FiniteSets, TLC

\* ------------------------------------------------------------------------
\* Program constants
\* ------------------------------------------------------------------------

\* const PKT_LEN: usize = 42 (receiver)
PKT_LEN == 42

\* const VJOY_AXIS_MAX: u16 = 0x8000
VJOY_AXIS_MAX == 32768

\* the modulus of u16 arithmetic (wrapping_add / wrapping_sub on u16)
U16 == 65536

\* 0x8000, the half range of is_newer_u16
HALF_RANGE == 32768

\* b"VKB2"
MAGIC == <<86, 75, 66, 50>>

\* the protocol version byte
VERSION == 2

\* `period` of sender_thread, in units of the model's clock: the clock
\* counts half periods
Period == 2

\* Option<T>: None is the empty sequence, Some(v) the sequence <<v>>
NoneOpt == <<>>

Some(v) == <<v>>

IsSome(o) == o # NoneOpt

Unwrap(o) == o[1]

\* ------------------------------------------------------------------------
\* Bounds of the model
\* ------------------------------------------------------------------------

\* pacer ticks a run of the model performs
MaxTicks == 2

\* capture events each device's capture loop processes in a run
MaxEvents == 2

\* datagrams the receive loop takes in a run
MaxRecv == 3

\* the clock reading up to which time passes by itself in a timed run
Horizon == 6

\* ------------------------------------------------------------------------
\* Integer casts and byte order
\* ------------------------------------------------------------------------

\* `x as u8` for an i8 x
AsU8(x) == (x + 256) % 256

\* `b as i8` for a u8 b
AsI8(b) == IF b >= 128 THEN b - 256 ELSE b

\* u16::to_le_bytes
ToLeBytes(v) == <<v % 256, v \div 256>>

\* u16::from_le_bytes
FromLeBytes(lo, hi) == lo + 256 * hi

\* a faulty variant: saturating instead of wrapping add
WrapInc16Saturating(s) == IF s + 1 < U16 THEN s + 1 ELSE s

\* u16::wrapping_add(1)
WrapInc16(s) == (s + 1) % U16

\* u16::wrapping_sub
WrapSub16(a, b) == (a - b + U16) % U16

\* i32::clamp(-1, 1) / i8::clamp(-1, 1)
Clamp1(v) == IF v < -1 THEN -1 ELSE IF v > 1 THEN 1 ELSE v

Abs(a) == IF a < 0 THEN -a ELSE a

\* Rust's integer `/`: the quotient truncated toward zero
TruncDiv(a, b) ==
    IF (a >= 0) = (b > 0) THEN Abs(a) \div Abs(b) ELSE -(Abs(a) \div Abs(b))

\* bit i (0-based) of byte b: (b >> i) & 1
Bit(b, i) == (b \div (2 ^ i)) % 2

\* b | (1 << i)
SetBit(b, i) == IF Bit(b, i) = 1 THEN b ELSE b + 2 ^ i

\* b & !(1 << i)
ClearBit(b, i) == IF Bit(b, i) = 1 THEN b - 2 ^ i ELSE b

\* a ^ b on bytes
XorByte(a, b) ==
    LET x(i) == IF Bit(a, i) # Bit(b, i) THEN 2 ^ i ELSE 0
    IN  x(0) + x(1) + x(2) + x(3) + x(4) + x(5) + x(6) + x(7)

ZeroButtons == [i \in 1..16 |-> 0]

\* ------------------------------------------------------------------------
\* Sender: axis normalisation and the two encoders
\* ------------------------------------------------------------------------

\* An i64 is kept as its sign and its magnitude, the magnitude as three
\* limbs <<m2, m1, m0>> = m2 * 2^32 + m1 * 2^16 + m0 with m1, m0 < 2^16.

\* `a as i64 - b as i64` for i32 a and b
I64Sub(a, b) ==
    LET dh  == (a \div U16) - (b \div U16)
        dl  == (a % U16) - (b % U16)
        neg == dh < 0 \/ (dh = 0 /\ dl < 0)
        h   == IF neg THEN -dh ELSE dh
        l   == IF neg THEN -dl ELSE dl
    IN  [neg |-> neg,
         mag |-> IF l < 0 THEN <<0, h - 1, l + U16>> ELSE <<0, h, l>>]

\* the magnitude m times k, for 0 <= k <= 32768
MulSmall(m, k) ==
    LET p0 == m[3] * k
        p1 == m[2] * k
        p2 == m[1] * k
        t1 == (p1 % U16) + (p0 \div U16)
    IN  <<p2 + (p1 \div U16) + (t1 \div U16), t1 % U16, p0 % U16>>

\* m <= n for magnitudes
MagLeq(m, n) ==
    \/ m[1] < n[1]
    \/ m[1] = n[1] /\ m[2] < n[2]
    \/ m[1] = n[1] /\ m[2] = n[2] /\ m[3] <= n[3]

\* the magnitude is below 2^63: the value is an i64
FitsI64(v) == v.mag[1] \div 32768 < U16

\* the largest q in lo0..hi0 with q * den <= num, for
\* 0 <= lo0 <= hi0 <= 32768 and lo0 * den <= num: this is
\* min(hi0, num / den), found by bisection
QuotientUpTo(num, den, lo0, hi0) ==
    LET Q[lo \in 0..32768, hi \in 0..32768] ==
            IF lo = hi THEN lo
            ELSE LET mid == (lo + hi + 1) \div 2
                 IN  IF MagLeq(MulSmall(den, mid), num)
                     THEN Q[mid, hi]
                     ELSE Q[lo, mid - 1]
    IN  Q[lo0, hi0]

\* min(hi, num / den) of magnitudes: by plain division when both are below
\* 2^31, by bisection otherwise
QuotientClamped(num, den, hi) ==
    IF num[1] = 0 /\ num[2] < 32768 /\ den[1] = 0 /\ den[2] < 32768
    THEN LET q == TruncDiv(num[2] * U16 + num[3], den[2] * U16 + den[3])
         IN  IF q > hi THEN hi ELSE q
    ELSE QuotientUpTo(num, den, 0, hi)

\* num of normalize_axis: (raw as i64 - r.min as i64) * VJOY_AXIS_MAX as i64;
\* the difference d is bound as the element of a one-element set, so that
\* it is computed once
NormNum(raw, r) ==
    CHOOSE num \in {[neg |-> d.neg, mag |-> MulSmall(d.mag, VJOY_AXIS_MAX)] :
                    d \in {I64Sub(raw, r.min)}} : TRUE

\* a faulty variant: raw scaled without subtracting r.min
normalize_axis_from_zero(raw, r) ==
    IF r.max = r.min
    THEN VJOY_AXIS_MAX \div 2
    ELSE CHOOSE out \in {IF num.neg # den.neg THEN 0
                         ELSE QuotientClamped(num.mag, den.mag, VJOY_AXIS_MAX) :
                         num \in {NormNum(raw, [min |-> 0, max |-> 0])},
                         den \in {I64Sub(r.max, r.min)}} : TRUE

\* `num / den` truncates toward zero: with num and den of different signs
\* out is <= 0 and is raised to 0; otherwise it is |num| / |den|, lowered to
\* VJOY_AXIS_MAX. num and den are bound as elements of one-element sets, so
\* that each is computed once.
normalize_axis(raw, r) ==
    IF r.max = r.min
    THEN VJOY_AXIS_MAX \div 2
    ELSE CHOOSE out \in {IF num.neg # den.neg THEN 0
                         ELSE QuotientClamped(num.mag, den.mag, VJOY_AXIS_MAX) :
                         num \in {NormNum(raw, r)},
                         den \in {I64Sub(r.max, r.min)}} : TRUE

\* the 16 bytes written by the `for i in 0..8` loop of encode_vkb2
AxisBytes(axes_raw, ranges) ==
    [j \in 1..16 |->
        LET i == (j + 1) \div 2
            v == normalize_axis(axes_raw[i], ranges[i])
        IN  ToLeBytes(v)[2 - (j % 2)]]

\* a faulty variant: the version byte is not checked
decode_vkb2_any_version(data) ==
    IF Len(data) < PKT_LEN \/ SubSeq(data, 1, 4) # MAGIC
    THEN [ok |-> FALSE, err |-> "bad", seq |-> 0, axes |-> <<>>, hat_x |-> 0,
          hat_y |-> 0, buttons |-> <<>>]
    ELSE [ok      |-> TRUE,
          err     |-> "",
          seq     |-> data[7] + 256 * data[8],
          axes    |-> [i \in 1..8 |-> data[8 + 2 * i - 1] + 256 * data[8 + 2 * i]],
          hat_x   |-> IF data[25] >= 128 THEN data[25] - 256 ELSE data[25],
          hat_y   |-> IF data[26] >= 128 THEN data[26] - 256 ELSE data[26],
          buttons |-> [i \in 1..16 |-> data[26 + i]]]

\* a faulty variant: the sequence number written big-endian
encode_vkb2_big_endian(seq, st, ranges) ==
    MAGIC \o <<VERSION, 0, seq \div 256, seq % 256>>
          \o AxisBytes(st.axes_raw, ranges)
          \o <<AsU8(st.hat_x), AsU8(st.hat_y)>>
          \o st.buttons

\* single-device encoder: 42 bytes, reserved byte at offset 5, seq at 6..8
encode_vkb2(seq, st, ranges) ==
    MAGIC \o <<VERSION, 0>> \o ToLeBytes(seq)
          \o AxisBytes(st.axes_raw, ranges)
          \o <<AsU8(st.hat_x), AsU8(st.hat_y)>>
          \o st.buttons

\* multi-device encoder: 43 bytes, device id at offset 5, reserved at 6,
\* seq at 7..9
encode_vkb2_multi(seq, device_id, st) ==
    MAGIC \o <<VERSION, device_id, 0>> \o ToLeBytes(seq)
          \o AxisBytes(st.axes_raw, st.axis_range)
          \o <<AsU8(st.hat_x), AsU8(st.hat_y)>>
          \o st.buttons

\* ------------------------------------------------------------------------
\* Receiver: the decoder
\* ------------------------------------------------------------------------

\* Err(..) of decode_vkb2; the Packet fields are unset
DecodeErr(why) ==
    [ok |-> FALSE, err |-> why, seq |-> 0, axes |-> <<>>, hat_x |-> 0,
     hat_y |-> 0, buttons |-> <<>>]

decode_vkb2(data) ==
    IF Len(data) < PKT_LEN THEN DecodeErr("too short")
    ELSE IF SubSeq(data, 1, 4) # MAGIC THEN DecodeErr("bad magic")
    ELSE IF data[5] # VERSION THEN DecodeErr("bad version")
    ELSE [ok      |-> TRUE,
          err     |-> "",
          seq     |-> FromLeBytes(data[7], data[8]),
          axes    |-> [i \in 1..8 |-> FromLeBytes(data[8 + 2 * i - 1], data[8 + 2 * i])],
          hat_x   |-> AsI8(data[25]),
          hat_y   |-> AsI8(data[26]),
          buttons |-> [i \in 1..16 |-> data[26 + i]]]

\* ------------------------------------------------------------------------
\* State
\* ------------------------------------------------------------------------

VARIABLES
    \* --- the sender program -------------------------------------------
    variant,      \* "single" (crates/linux-sender) or "multi" (linux-producer)
    order,        \* the iteration order of shared_map (one device when single)
    ranges,       \* per device: the AxisRange table build_axis_ranges returned
    shared,       \* per device: the SharedState inside the Mutex
    lock,         \* per device: who holds the Mutex: "free", "input", "sender"
    inputPc,      \* per device: the capture thread's position
    ev,           \* per device: the event the capture thread is processing
    changed,      \* per device: the outcome of the thread's old-vs-new compare
    senderPc,     \* the main thread's position: startup, then the pacer
    devIdx,       \* the pacer's position in the per-tick device loop
    snapshot,     \* the pacer's local copy of a SharedState
    buf,          \* the pacer's send buffer
    seqs,         \* per device: the next sequence number (seq / seqs)
    next,         \* the pacer's wake time, a reading of the clock
    \* --- the environment ----------------------------------------------
    evPool,       \* the events the input devices may produce in this run
    evLeft,       \* per device: events still to come in this run
    linkUp,       \* whether the network carries the datagrams to the receiver
    faults,       \* the failures the hosts' devices and sockets may report
    clock,        \* what Instant::now() returns on the sender's host
    timing,       \* how long the run lasts and how late a sleep may return
    net,          \* datagrams in flight
    \* --- the receiver program -----------------------------------------
    hat_mode,     \* device.hat_type(): "Discrete" or "Continuous"
    hats_enabled, \* device.num_hats() >= 1
    last_seq,     \* Option<u16>
    last_buttons, \* [u8; 16]
    stats,        \* received, applied, bad, dup, ooo, lost_est
    vjoy,         \* the virtual device's controls
    rx,           \* the last receive-loop iteration: datagram, pkt, verdict, writes
    rxPc,         \* the receiver's position: "recv", or "exited"
    \* --- history (not program state) ----------------------------------
    sendStart,    \* per device: datagrams sent before the run starts
    sent,         \* per device: the sequence numbers sent in the run, in order
    ticks,        \* pacer ticks completed in the run
    failed,       \* the failure that ended the sender process, if any
    tickAt,       \* the clock at the start of each pacer tick, in order
    overruns,     \* the overruns: ticks started before, and the time N read
    hist,         \* per device: the SharedState after each completed event
    latest,       \* per device: the latest event value of every control
    nChanges,     \* per device: events that changed a stored value
    revStart,     \* per device: revision at the start of the run
    appliedIdx,   \* send indices of the applied datagrams, in order
    maxDelivered, \* the newest datagram delivered so far
    windowOk,     \* every delivered datagram was within the half range
    trackerDev,   \* the device whose datagram set last_seq
    \* --- pure-function harness ----------------------------------------
    fnIn,
    fnOut

senderVars == <<variant, order, ranges, shared, lock, inputPc, ev, changed,
                senderPc, devIdx, snapshot, buf, seqs, next>>
envVars    == <<evPool, evLeft, linkUp, faults, clock, timing>>
rxVars     == <<hat_mode, hats_enabled, last_seq, last_buttons, stats, vjoy, rx,
                rxPc>>
capHist    == <<hist, latest, nChanges, revStart>>
sendHist   == <<sendStart, sent, ticks, failed, tickAt, overruns>>
rxHist     == <<appliedIdx, maxDelivered, windowOk, trackerDev>>
fnVars     == <<fnIn, fnOut>>

vars == <<senderVars, envVars, net, rxVars, capHist, sendHist, rxHist, fnVars>>

\* ------------------------------------------------------------------------
\* Sender: tables built at startup
\* ------------------------------------------------------------------------

AXIS_CODES == <<"ABS_X", "ABS_Y", "ABS_Z", "ABS_RX", "ABS_RY", "ABS_RZ",
                "ABS_THROTTLE", "ABS_RUDDER">>

\* AXIS_CODES.iter().position(|c| *c == axis), as an Option of a 1-based slot
axis_slot(axis) ==
    IF \E i \in 1..8 : AXIS_CODES[i] = axis
    THEN Some(CHOOSE i \in 1..8 : AXIS_CODES[i] = axis /\ \A j \in 1..(i - 1) : AXIS_CODES[j] # axis)
    ELSE NoneOpt

\* dev.supported_keys() of the modelled device: 130 key codes from
\* BTN_TRIGGER (0x120) up, two more than the button set can hold
SupportedKeys == 288..417

\* build_button_map: the keys sorted by code get ids 1, 2, ... and the loop
\* stops once idx > 128
build_button_map(keys) ==
    LET idx(k) == Cardinality({j \in keys : j < k}) + 1
    IN  [k \in {k \in keys : idx(k) <= 128} |-> idx(k)]

button_map == build_button_map(SupportedKeys)

\* button_bitpos: (byte, bit) of a 1-based button id; the byte is 1-based here
button_bitpos(btn_id) ==
    LET zero_based == btn_id - 1
    IN  <<(zero_based \div 8) + 1, zero_based % 8>>

\* ------------------------------------------------------------------------
\* Sender: SharedState
\* ------------------------------------------------------------------------

\* u64 as four 16-bit limbs, least significant first
U64Zero == <<0, 0, 0, 0>>

U64Max == <<65535, 65535, 65535, 65535>>

\* u64::wrapping_add(1)
U64Inc(r) ==
    IF r[1] < 65535 THEN <<r[1] + 1, r[2], r[3], r[4]>>
    ELSE IF r[2] < 65535 THEN <<0, r[2] + 1, r[3], r[4]>>
    ELSE IF r[3] < 65535 THEN <<0, 0, r[3] + 1, r[4]>>
    ELSE IF r[4] < 65535 THEN <<0, 0, 0, r[4] + 1>>
    ELSE U64Zero

DefaultRange == [min |-> 0, max |-> 0]

\* SharedState::default(); the multi-device variant's struct also holds
\* axis_range
DefaultState(v) ==
    IF v = "single"
    THEN [axes_raw |-> [i \in 1..8 |-> 0], hat_x |-> 0, hat_y |-> 0,
          buttons |-> ZeroButtons, revision |-> U64Zero]
    ELSE [axis_range |-> [i \in 1..8 |-> DefaultRange],
          axes_raw |-> [i \in 1..8 |-> 0], hat_x |-> 0, hat_y |-> 0,
          buttons |-> ZeroButtons, revision |-> U64Zero]

Devs == {order[i] : i \in 1..Len(order)}

\* ------------------------------------------------------------------------
\* Input events
\* ------------------------------------------------------------------------

AbsEvent(code, v) == [kind |-> "abs", axis |-> code, key |-> 0, value |-> v]

KeyEvent(k, v) == [kind |-> "key", axis |-> "-", key |-> k, value |-> v]

\* any other EventSummary (synchronization, misc, ...)
OtherEvent == [kind |-> "other", axis |-> "-", key |-> 0, value |-> 0]

NoEvent == [kind |-> "none", axis |-> "-", key |-> 0, value |-> 0]

IsHatX(e) == e.kind = "abs" /\ e.axis = "ABS_HAT0X"

IsHatY(e) == e.kind = "abs" /\ e.axis = "ABS_HAT0Y"

\* the third match arm: any other absolute axis
IsAxis(e) == e.kind = "abs" /\ ~IsHatX(e) /\ ~IsHatY(e)

IsKey(e) == e.kind = "key"

\* whether the event's match arm takes the lock at all
TakesLock(e) ==
    \/ IsHatX(e)
    \/ IsHatY(e)
    \/ IsAxis(e) /\ IsSome(axis_slot(e.axis))
    \/ IsKey(e) /\ e.key \in DOMAIN button_map

\* ------------------------------------------------------------------------
\* Capture loop (input_thread), one thread per device k
\* ------------------------------------------------------------------------

\* a faulty variant: the ABS_HAT0Y arm stores into hat_x
NewFieldHatMixup(st, e) ==
    IF IsHatX(e) \/ IsHatY(e) THEN [st EXCEPT !.hat_x = Clamp1(e.value)]
    ELSE IF IsAxis(e) THEN [st EXCEPT !.axes_raw[Unwrap(axis_slot(e.axis))] = e.value]
    ELSE LET pos == button_bitpos(button_map[e.key])
         IN  IF e.value # 0
             THEN [st EXCEPT !.buttons[pos[1]] = SetBit(@, pos[2])]
             ELSE [st EXCEPT !.buttons[pos[1]] = ClearBit(@, pos[2])]

\* the value the event's match arm compares with the stored one and stores
NewField(st, e) ==
    IF IsHatX(e) THEN [st EXCEPT !.hat_x = Clamp1(e.value)]
    ELSE IF IsHatY(e) THEN [st EXCEPT !.hat_y = Clamp1(e.value)]
    ELSE IF IsAxis(e) THEN [st EXCEPT !.axes_raw[Unwrap(axis_slot(e.axis))] = e.value]
    ELSE LET pos    == button_bitpos(button_map[e.key])
             byte_i == pos[1]
             bit_i  == pos[2]
         IN  IF e.value # 0
             THEN [st EXCEPT !.buttons[byte_i] = SetBit(@, bit_i)]
             ELSE [st EXCEPT !.buttons[byte_i] = ClearBit(@, bit_i)]

\* a faulty variant: revision bumped on every event that reaches the lock
AlwaysDiffers(st, e) == TRUE

\* the `if st.x != v` / `if old != new` test of the match arm
FieldDiffers(st, e) == NewField(st, e) # st

\* what the history records of an event: the latest value of its control
Observe(l, e) ==
    IF IsHatX(e) THEN [l EXCEPT !.hat_x = Clamp1(e.value)]
    ELSE IF IsHatY(e) THEN [l EXCEPT !.hat_y = Clamp1(e.value)]
    ELSE IF e.kind = "abs" /\ \E i \in 1..8 : AXIS_CODES[i] = e.axis
    THEN [l EXCEPT !.axes = [i \in 1..8 |-> IF AXIS_CODES[i] = e.axis THEN e.value ELSE @[i]]]
    ELSE IF e.kind = "key" /\ e.key \in SupportedKeys
                          /\ Cardinality({j \in SupportedKeys : j < e.key}) < 128
    THEN [l EXCEPT !.pressed = IF e.value # 0 THEN @ \cup {e.key} ELSE @ \ {e.key}]
    ELSE l

NoObservation ==
    [axes |-> [i \in 1..8 |-> 0], hat_x |-> 0, hat_y |-> 0, pressed |-> {}]

\* dev.fetch_events() hands the loop its next event
InputFetch(k) ==
    /\ inputPc[k] = "fetch"
    /\ evLeft[k] > 0
    /\ \E e \in evPool :
          /\ ev' = [ev EXCEPT ![k] = e]
          /\ latest' = [latest EXCEPT ![k] = Observe(@, e)]
          /\ nChanges' = [nChanges EXCEPT ![k] = IF Observe(latest[k], e) # latest[k]
                                                 THEN @ + 1 ELSE @]
    /\ evLeft' = [evLeft EXCEPT ![k] = @ - 1]
    /\ inputPc' = [inputPc EXCEPT ![k] = "match"]
    /\ UNCHANGED <<variant, next, order, ranges, shared, lock, changed, senderPc,
                   devIdx, snapshot, buf, seqs>>
    /\ UNCHANGED <<evPool, linkUp, faults, clock, timing, net, rxVars, hist, revStart, sendHist,
                   rxHist, fnVars>>

\* a faulty variant: the error of one device's fetch ends the whole process
InputFetchFailFatal(k) ==
    /\ inputPc[k] = "fetch"
    /\ faults.fetch
    /\ inputPc' = [j \in DOMAIN inputPc |-> "exited"]
    /\ senderPc' = "exited"
    /\ UNCHANGED <<variant, next, order, ranges, shared, lock, ev, changed, devIdx,
                   snapshot, buf, seqs>>
    /\ UNCHANGED <<envVars, net, rxVars, capHist, sendHist, rxHist, fnVars>>

\* dev.fetch_events()? returns Err: input_thread returns it, the closure
\* passed to thread::spawn prints it, and the thread ends. The match arms'
\* lock guards live inside the loop body, so no lock is held here.
InputFetchFail(k) ==
    /\ inputPc[k] = "fetch"
    /\ faults.fetch
    /\ inputPc' = [inputPc EXCEPT ![k] = "exited"]
    /\ UNCHANGED <<variant, next, order, ranges, shared, lock, ev, changed, senderPc,
                   devIdx, snapshot, buf, seqs>>
    /\ UNCHANGED <<envVars, net, rxVars, capHist, sendHist, rxHist, fnVars>>

\* an unknown axis, an unmapped key or another kind of event: no lock taken
InputSkip(k) ==
    /\ inputPc[k] = "match"
    /\ ~TakesLock(ev[k])
    /\ inputPc' = [inputPc EXCEPT ![k] = "fetch"]
    /\ UNCHANGED <<variant, next, order, ranges, shared, lock, ev, changed, senderPc,
                   devIdx, snapshot, buf, seqs>>
    /\ UNCHANGED <<envVars, net, rxVars, capHist, sendHist, rxHist, fnVars>>

\* let mut st = shared.lock().unwrap()
InputLock(k) ==
    /\ inputPc[k] = "match"
    /\ TakesLock(ev[k])
    /\ lock[k] = "free"
    /\ lock' = [lock EXCEPT ![k] = "input"]
    /\ inputPc' = [inputPc EXCEPT ![k] = "locked"]
    /\ UNCHANGED <<variant, next, order, ranges, shared, ev, changed, senderPc,
                   devIdx, snapshot, buf, seqs>>
    /\ UNCHANGED <<envVars, net, rxVars, capHist, sendHist, rxHist, fnVars>>

\* compare old and new; store the field only when they differ
InputWrite(k) ==
    /\ inputPc[k] = "locked"
    /\ IF FieldDiffers(shared[k], ev[k])
       THEN /\ shared' = [shared EXCEPT ![k] = NewField(@, ev[k])]
            /\ changed' = [changed EXCEPT ![k] = TRUE]
            /\ inputPc' = [inputPc EXCEPT ![k] = "bump"]
       ELSE /\ changed' = [changed EXCEPT ![k] = FALSE]
            /\ inputPc' = [inputPc EXCEPT ![k] = "unlock"]
            /\ UNCHANGED shared
    /\ UNCHANGED <<variant, next, order, ranges, lock, ev, senderPc, devIdx,
                   snapshot, buf, seqs>>
    /\ UNCHANGED <<envVars, net, rxVars, capHist, sendHist, rxHist, fnVars>>

\* st.revision = st.revision.wrapping_add(1)
InputBump(k) ==
    /\ inputPc[k] = "bump"
    /\ shared' = [shared EXCEPT ![k].revision = U64Inc(@)]
    /\ inputPc' = [inputPc EXCEPT ![k] = "unlock"]
    /\ UNCHANGED <<variant, next, order, ranges, lock, ev, changed, senderPc,
                   devIdx, snapshot, buf, seqs>>
    /\ UNCHANGED <<envVars, net, rxVars, capHist, sendHist, rxHist, fnVars>>

\* the guard `st` goes out of scope at the end of the match arm
InputUnlock(k) ==
    /\ inputPc[k] = "unlock"
    /\ lock' = [lock EXCEPT ![k] = "free"]
    /\ inputPc' = [inputPc EXCEPT ![k] = "fetch"]
    /\ hist' = [hist EXCEPT ![k] = @ \cup {shared[k]}]
    /\ UNCHANGED <<variant, next, order, ranges, shared, ev, changed, senderPc,
                   devIdx, snapshot, buf, seqs>>
    /\ UNCHANGED <<envVars, net, rxVars, latest, nChanges, revStart, sendHist,
                   rxHist, fnVars>>

\* ------------------------------------------------------------------------
\* Pacer / transmitter (sender_thread)
\* ------------------------------------------------------------------------

\* the device of the current iteration of `for (k, shared) in shared_map`
cur == order[devIdx]

\* the device of the current iteration of main's
\* `for (k, vjoy_device) in config.vjoy_device.iter()`: a BTreeMap, iterated
\* in ascending key order (the single-device main opens its one device)
Configured(i) == CHOOSE k \in Devs : Cardinality({j \in Devs : j < k}) = i - 1

\* main returns: the process exits and every thread ends with it
ProcessExit(what, k) ==
    /\ senderPc' = "exited"
    /\ inputPc' = [j \in DOMAIN inputPc |-> "exited"]
    /\ failed' = Some([what |-> what, dev |-> k])

\* a faulty variant: a device that cannot be opened is skipped
MainOpenFailSkips ==
    /\ senderPc = "open"
    /\ Configured(devIdx) \in faults.missing
    /\ IF devIdx < Cardinality(Devs)
       THEN devIdx' = devIdx + 1 /\ senderPc' = "open"
       ELSE devIdx' = 1 /\ senderPc' = "tick"
    /\ failed' = Some([what |-> "open", dev |-> Configured(devIdx)])
    /\ UNCHANGED <<variant, next, order, ranges, shared, lock, inputPc, ev, changed,
                   snapshot, buf, seqs>>
    /\ UNCHANGED <<envVars, net, rxVars, capHist, tickAt, overruns, sendStart, sent, ticks, rxHist,
                   fnVars>>

\* open_vkb_device(..)? (or build_button_map / build_axis_ranges) returns
\* Err: main returns it
MainOpenFail ==
    /\ senderPc = "open"
    /\ Configured(devIdx) \in faults.missing
    /\ ProcessExit("open", Configured(devIdx))
    /\ UNCHANGED <<variant, next, order, ranges, shared, lock, ev, changed, devIdx,
                   snapshot, buf, seqs>>
    /\ UNCHANGED <<envVars, net, rxVars, capHist, tickAt, overruns, sendStart, sent, ticks, rxHist,
                   fnVars>>

\* the device opens and its tables are built: the multi-device main stores
\* the axis ranges in the SharedState; the capture thread is spawned. After
\* the last device main calls sender_thread.
MainOpen ==
    /\ senderPc = "open"
    /\ Configured(devIdx) \notin faults.missing
    /\ \E k \in {Configured(devIdx)} :
       \E st \in {IF variant = "multi"
                   THEN [shared[k] EXCEPT !.axis_range = ranges[k]]
                   ELSE shared[k]} :
          /\ shared' = [shared EXCEPT ![k] = st]
          /\ hist' = [hist EXCEPT ![k] = {st}]
          /\ inputPc' = [inputPc EXCEPT ![k] = "fetch"]
    /\ IF devIdx < Cardinality(Devs)
       THEN devIdx' = devIdx + 1 /\ senderPc' = "open"
       ELSE devIdx' = 1 /\ senderPc' = "tick"
    /\ next' = IF devIdx < Cardinality(Devs) THEN next ELSE clock
    /\ UNCHANGED <<variant, order, ranges, lock, ev, changed, snapshot, buf, seqs>>
    /\ UNCHANGED <<envVars, net, rxVars, latest, nChanges, revStart, sendHist,
                   rxHist, fnVars>>

\* top of the loop: next += period, and the per-device loop starts
SenderTick ==
    /\ senderPc = "tick"
    /\ ticks < timing.ticks
    /\ next' = next + Period
    /\ tickAt' = Append(tickAt, clock)
    /\ devIdx' = 1
    /\ senderPc' = "lock"
    /\ UNCHANGED <<variant, order, ranges, shared, lock, inputPc, ev, changed,
                   snapshot, buf, seqs>>
    /\ UNCHANGED <<envVars, net, rxVars, capHist, sendStart, sent, ticks, failed,
                   overruns, rxHist, fnVars>>

\* a faulty variant: the copy made without waiting for the Mutex
LockNotAwaited(k) == TRUE

\* whether shared.lock() returns: the Mutex is free
LockGranted(k) == lock[k] = "free"

\* shared.lock().unwrap()
SenderLock ==
    /\ senderPc = "lock"
    /\ LockGranted(cur)
    /\ lock' = [lock EXCEPT ![cur] = "sender"]
    /\ senderPc' = "copy"
    /\ UNCHANGED <<variant, next, order, ranges, shared, inputPc, ev, changed,
                   devIdx, snapshot, buf, seqs>>
    /\ UNCHANGED <<envVars, net, rxVars, capHist, sendHist, rxHist, fnVars>>

\* a faulty variant: the guard outlives the copy
SenderCopyKeepsGuard ==
    /\ senderPc = "copy"
    /\ snapshot' = shared[cur]
    /\ senderPc' = "encode"
    /\ UNCHANGED <<variant, next, order, ranges, shared, lock, inputPc, ev, changed,
                   devIdx, buf, seqs>>
    /\ UNCHANGED <<envVars, net, rxVars, capHist, sendHist, rxHist, fnVars>>

\* let snapshot = { *guard }: the copy, and the guard dropped at the `}`
SenderCopy ==
    /\ senderPc = "copy"
    /\ snapshot' = shared[cur]
    /\ lock' = [lock EXCEPT ![cur] = "free"]
    /\ senderPc' = "encode"
    /\ UNCHANGED <<variant, next, order, ranges, shared, inputPc, ev, changed,
                   devIdx, buf, seqs>>
    /\ UNCHANGED <<envVars, net, rxVars, capHist, sendHist, rxHist, fnVars>>

\* encode_vkb2(&mut buf, seq, ...); seq = seq.wrapping_add(1)
SenderEncode ==
    /\ senderPc = "encode"
    /\ buf' = IF variant = "single"
              THEN encode_vkb2(seqs[cur], snapshot, ranges[cur])
              ELSE encode_vkb2_multi(seqs[cur], cur, snapshot)
    /\ seqs' = [seqs EXCEPT ![cur] = WrapInc16(@)]
    /\ senderPc' = "send"
    /\ UNCHANGED <<variant, next, order, ranges, shared, lock, inputPc, ev, changed,
                   devIdx, snapshot>>
    /\ UNCHANGED <<envVars, net, rxVars, capHist, sendHist, rxHist, fnVars>>

\* the datagram sock.send(&buf) puts on the wire, tagged for the history with
\* its device and its send index
Datagram == [dev   |-> cur,
             idx   |-> sendStart[cur] + Len(sent[cur]),
             bytes |-> buf]

\* the sequence number a sent frame carries: the two bytes its encoder wrote
\* it to (offsets 6..8 of the 42-byte frame, 7..9 of the 43-byte frame)
SeqOnWire(b) ==
    IF variant = "single" THEN FromLeBytes(b[7], b[8]) ELSE FromLeBytes(b[8], b[9])

\* sock.send(&buf)? succeeds; the loop goes on to the next device, or to the
\* pacing at the end of the tick
SenderSend ==
    /\ senderPc = "send"
    /\ net' = IF linkUp THEN net \cup {Datagram} ELSE net
    /\ sent' = [sent EXCEPT ![cur] = Append(@, SeqOnWire(buf))]
    /\ IF devIdx < Len(order)
       THEN devIdx' = devIdx + 1 /\ senderPc' = "lock"
       ELSE devIdx' = devIdx /\ senderPc' = "pace"
    /\ UNCHANGED <<variant, next, order, ranges, shared, lock, inputPc, ev, changed,
                   snapshot, buf, seqs>>
    /\ UNCHANGED <<envVars, rxVars, capHist, tickAt, overruns, sendStart, ticks, failed, rxHist,
                   fnVars>>

\* a faulty variant: a failed send is skipped and the loop goes on
SenderSendFailGoesOn ==
    /\ senderPc = "send"
    /\ faults.send
    /\ failed' = Some([what |-> "send", dev |-> cur])
    /\ IF devIdx < Len(order)
       THEN devIdx' = devIdx + 1 /\ senderPc' = "lock"
       ELSE devIdx' = devIdx /\ senderPc' = "pace"
    /\ UNCHANGED <<variant, next, order, ranges, shared, lock, inputPc, ev, changed,
                   snapshot, buf, seqs>>
    /\ UNCHANGED <<envVars, net, rxVars, capHist, tickAt, overruns, sendStart, sent, ticks, rxHist,
                   fnVars>>

\* sock.send(&buf)? returns Err: sender_thread returns it to main, and main
\* returns it. Nothing was put on the wire.
SenderSendFail ==
    /\ senderPc = "send"
    /\ faults.send
    /\ ProcessExit("send", cur)
    /\ UNCHANGED <<variant, next, order, ranges, shared, lock, ev, changed, devIdx,
                   snapshot, buf, seqs>>
    /\ UNCHANGED <<envVars, net, rxVars, capHist, tickAt, overruns, sendStart, sent, ticks, rxHist,
                   fnVars>>

\* a faulty variant: after an overrun the wake time keeps its backlog
SenderPaceKeepsBacklog ==
    /\ senderPc = "pace"
    /\ IF next > clock
       THEN /\ \E late \in timing.late : clock' = next + late
            /\ overruns' = overruns
       ELSE /\ clock' = clock
            /\ overruns' = Append(overruns, [after |-> Len(tickAt), at |-> clock])
    /\ ticks' = ticks + 1
    /\ senderPc' = "tick"
    /\ UNCHANGED <<variant, next, order, ranges, shared, lock, inputPc, ev, changed,
                   devIdx, snapshot, buf, seqs>>
    /\ UNCHANGED <<evPool, evLeft, linkUp, faults, timing, net, rxVars, capHist,
                   tickAt, sendStart, sent, failed, rxHist, fnVars>>

\* the end of the iteration: `let now = Instant::now()`, then
\* thread::sleep(next - now) if next > now, which returns at `next` or
\* later, and `next = now` otherwise
SenderPace ==
    /\ senderPc = "pace"
    /\ IF next > clock
       THEN /\ \E late \in timing.late : clock' = next + late
            /\ next' = next
            /\ overruns' = overruns
       ELSE /\ clock' = clock
            /\ next' = clock
            /\ overruns' = Append(overruns, [after |-> Len(tickAt), at |-> clock])
    /\ ticks' = ticks + 1
    /\ senderPc' = "tick"
    /\ UNCHANGED <<variant, order, ranges, shared, lock, inputPc, ev, changed,
                   devIdx, snapshot, buf, seqs>>
    /\ UNCHANGED <<evPool, evLeft, linkUp, faults, timing, net, rxVars, capHist,
                   tickAt, sendStart, sent, failed, rxHist, fnVars>>

\* time passes on the sender's host while its threads work or wait
TimePasses ==
    /\ clock < timing.horizon
    /\ clock' = clock + 1
    /\ UNCHANGED <<senderVars, evPool, evLeft, linkUp, faults, timing, net,
                   rxVars, capHist, sendHist, rxHist, fnVars>>

\* ------------------------------------------------------------------------
\* The UDP channel
\* ------------------------------------------------------------------------

\* the network loses a datagram
NetDrop(d) ==
    /\ d \in net
    /\ net' = net \ {d}
    /\ UNCHANGED <<senderVars, envVars, rxVars, capHist, sendHist, rxHist, fnVars>>

\* a host sends datagram d to the receiver's port: the socket takes
\* datagrams from any sender, whatever they hold
NetInject(d) ==
    /\ net = {}
    /\ net' = {d}
    /\ UNCHANGED <<senderVars, envVars, rxVars, capHist, sendHist, rxHist, fnVars>>

\* ------------------------------------------------------------------------
\* Receiver: sequence gate and state applicator
\* ------------------------------------------------------------------------

\* a faulty variant: any different sequence number counts as newer
is_newer_any(a, b) == WrapSub16(a, b) # 0

\* a faulty variant: a plain comparison, no wraparound
is_newer_plain(a, b) == a > b

\* a faulty variant: the half range included
is_newer_inclusive(a, b) ==
    LET diff == WrapSub16(a, b)
    IN  diff # 0 /\ diff <= HALF_RANGE

\* a faulty variant: the direct successor is not counted as newer
is_newer_after_gap(a, b) ==
    LET diff == WrapSub16(a, b)
    IN  diff > 1 /\ diff < HALF_RANGE

is_newer_u16(a, b) ==
    LET diff == WrapSub16(a, b)
    IN  diff # 0 /\ diff < HALF_RANGE

\* a faulty variant: lost_est grows by diff, the applied packet included
GateLostCountsApplied(last, seq) ==
    IF last = NoneOpt THEN [verdict |-> "applied", lost |-> 0]
    ELSE LET diff == WrapSub16(seq, Unwrap(last))
         IN  IF diff = 0 THEN [verdict |-> "dup", lost |-> 0]
             ELSE IF diff < HALF_RANGE THEN [verdict |-> "applied", lost |-> diff]
             ELSE [verdict |-> "ooo", lost |-> 0]

\* a faulty variant: no test for an equal sequence number
GateNoDuplicateTest(last, seq) ==
    IF last = NoneOpt THEN [verdict |-> "applied", lost |-> 0]
    ELSE IF WrapSub16(seq, Unwrap(last)) < HALF_RANGE
    THEN [verdict |-> "applied", lost |-> 0]
    ELSE [verdict |-> "ooo", lost |-> 0]

\* the `match last_seq` of the receive loop: the verdict on a decoded packet
\* and what it adds to lost_est
Gate(last, seq) ==
    IF last = NoneOpt THEN [verdict |-> "applied", lost |-> 0]
    ELSE LET prev == Unwrap(last)
         IN  IF seq = prev THEN [verdict |-> "dup", lost |-> 0]
             ELSE IF is_newer_u16(seq, prev)
             THEN LET diff == WrapSub16(seq, prev)
                  IN  [verdict |-> "applied",
                       lost    |-> IF diff > 1 THEN diff - 1 ELSE 0]
             ELSE [verdict |-> "ooo", lost |-> 0]

\* a faulty variant: OR instead of XOR
or_16(a, b) == [i \in 1..16 |-> a[i] + b[i] - (a[i] + b[i] - XorByte(a[i], b[i])) \div 2]

xor_16(a, b) == [i \in 1..16 |-> XorByte(a[i], b[i])]

\* u32 as two 16-bit limbs, most significant first
U32(v) == <<0, v>>

U32Max == <<65535, 65535>>

Discrete(v) == [kind |-> "Discrete", dir |-> v, angle |-> U32(0)]

Continuous(a) == [kind |-> "Continuous", dir |-> "-", angle |-> a]

\* the `match hat_mode` of hatstate_from_xy, on the normalized x and y
HatMatch(x, y, mode) ==
    IF mode.kind = "Discrete"
    THEN Discrete(
           IF x = 0 /\ y = 0 THEN "Centered"
           ELSE IF x = 0 /\ y = -1 THEN "North"
           ELSE IF x = 0 /\ y = 1 THEN "South"
           ELSE IF x = 1 /\ y = 0 THEN "East"
           ELSE IF x = -1 /\ y = 0 THEN "West"
           ELSE IF x = 1 /\ y = -1 THEN "North"
           ELSE IF x = -1 /\ y = -1 THEN "North"
           ELSE IF x = 1 /\ y = 1 THEN "South"
           ELSE IF x = -1 /\ y = 1 THEN "South"
           ELSE "Centered")
    ELSE IF x = 0 /\ y = 0 THEN Continuous(U32Max)
    ELSE IF x = 0 /\ y = -1 THEN Continuous(U32(0 * 100))
    ELSE IF x = 1 /\ y = -1 THEN Continuous(U32(45 * 100))
    ELSE IF x = 1 /\ y = 0 THEN Continuous(U32(90 * 100))
    ELSE IF x = 1 /\ y = 1 THEN Continuous(U32(135 * 100))
    ELSE IF x = 0 /\ y = 1 THEN Continuous(U32(180 * 100))
    ELSE IF x = -1 /\ y = 1 THEN Continuous(U32(225 * 100))
    ELSE IF x = -1 /\ y = 0 THEN Continuous(U32(270 * 100))
    ELSE IF x = -1 /\ y = -1 THEN Continuous(U32(315 * 100))
    ELSE Continuous(U32Max)

\* a faulty variant: x and y not clamped
hatstate_unclamped(x0, y0, mode) == HatMatch(x0, y0, mode)

hatstate_from_xy(x0, y0, mode) == HatMatch(Clamp1(x0), Clamp1(y0), mode)

\* one call on the virtual device
Write(op, id, val, hs) == [op |-> op, id |-> id, val |-> val, hat |-> hs]

NoHat == Discrete("-")

\* a faulty variant: the button id without the + 1
ButtonWritesZeroBased(delta, buttons) ==
    LET hit == {n \in 0..127 : Bit(delta[(n \div 8) + 1], n % 8) = 1}
        nth(k) == CHOOSE n \in hit : Cardinality({m \in hit : m < n}) = k - 1
    IN  [k \in 1..Cardinality(hit) |->
            Write("button", nth(k), Bit(buttons[(nth(k) \div 8) + 1], nth(k) % 8), NoHat)]

\* the device.set_button calls of the nested byte/bit loops: one for each set
\* bit n (= byte_i * 8 + bit) of delta, in ascending order of n
ButtonWrites(delta, buttons) ==
    LET hit == {n \in 0..127 : Bit(delta[(n \div 8) + 1], n % 8) = 1}
        nth(k) == CHOOSE n \in hit : Cardinality({m \in hit : m < n}) = k - 1
    IN  [k \in 1..Cardinality(hit) |->
            Write("button", nth(k) + 1, Bit(buttons[(nth(k) \div 8) + 1], nth(k) % 8), NoHat)]

\* every call the `if should_apply` block makes on the device, in order
ApplyWrites(pkt, lastb, mode, hats) ==
    LET delta == xor_16(pkt.buttons, lastb)
    IN  [i \in 1..8 |-> Write("axis", i, pkt.axes[i], NoHat)]
        \o (IF hats THEN <<Write("hat", 1, 0, hatstate_from_xy(pkt.hat_x, pkt.hat_y, mode))>>
                    ELSE <<>>)
        \o (IF delta # ZeroButtons THEN ButtonWrites(delta, pkt.buttons) ELSE <<>>)
        \o <<Write("commit", 0, 0, NoHat)>>

\* the virtual device after the calls ws, made in order: every control holds
\* the value of the last call that set it
DeviceAfterAll(dev, ws) ==
    LET calls(op, id) == {j \in 1..Len(ws) : ws[j].op = op /\ ws[j].id = id}
        last(op, id)  == ws[CHOOSE j \in calls(op, id) : \A i \in calls(op, id) : i <= j]
        set           == {ws[j].id : j \in {i \in 1..Len(ws) : ws[i].op = "button"}}
    IN  [axes    |-> [i \in 1..8 |-> IF calls("axis", i) = {} THEN dev.axes[i]
                                     ELSE last("axis", i).val],
         hat     |-> IF calls("hat", 1) = {} THEN dev.hat ELSE last("hat", 1).hat,
         buttons |-> (dev.buttons \ set) \cup {id \in set : last("button", id).val = 1},
         commits |-> dev.commits + Cardinality(calls("commit", 0))]

\* a faulty variant: a datagram that fails to decode is not counted as bad
CountForgetsBad(st, g) ==
    [received |-> st.received + 1,
     applied  |-> st.applied + (IF g.verdict = "applied" THEN 1 ELSE 0),
     bad      |-> st.bad,
     dup      |-> st.dup + (IF g.verdict = "dup" THEN 1 ELSE 0),
     ooo      |-> st.ooo + (IF g.verdict = "ooo" THEN 1 ELSE 0),
     lost_est |-> st.lost_est + g.lost]

\* the counters after an iteration with verdict g: `received += 1` and the
\* one of `bad += 1`, `dup += 1`, `ooo += 1`, `applied += 1` on its path,
\* and what the path adds to lost_est
Count(st, g) ==
    [received |-> st.received + 1,
     applied  |-> st.applied + (IF g.verdict = "applied" THEN 1 ELSE 0),
     bad      |-> st.bad + (IF g.verdict = "bad" THEN 1 ELSE 0),
     dup      |-> st.dup + (IF g.verdict = "dup" THEN 1 ELSE 0),
     ooo      |-> st.ooo + (IF g.verdict = "ooo" THEN 1 ELSE 0),
     lost_est |-> st.lost_est + g.lost]

\* one iteration of the receive loop on datagram d; the network may deliver
\* d again later (keep). failAt = 0: every call on the virtual device
\* succeeds; failAt = j: the j-th call of the iteration returns Err, which
\* the `?` hands to main's caller: the calls before it were made, the rest of
\* the iteration was not, and the process exits.
ReceiveOne(d, keep, failAt) ==
    /\ rxPc = "recv"
    /\ d \in net
    /\ failAt \in faults.vjoy
    /\ net' = IF keep THEN net ELSE net \ {d}
    /\ \E pkt \in {decode_vkb2(d.bytes)} :
       \E g \in {IF pkt.ok THEN Gate(last_seq, pkt.seq)
                            ELSE [verdict |-> "bad", lost |-> 0]} :
       \E ws \in {IF g.verdict = "applied"
                   THEN ApplyWrites(pkt, last_buttons, hat_mode, hats_enabled)
                   ELSE <<>>} :
       \E made \in {IF failAt = 0 \/ failAt > Len(ws) THEN ws
                     ELSE SubSeq(ws, 1, failAt - 1)} :
           /\ failAt <= Len(ws)
           /\ stats' = Count(stats, g)
           /\ last_seq' = IF g.verdict = "applied" THEN Some(pkt.seq) ELSE last_seq
           /\ last_buttons' = IF /\ g.verdict = "applied"
                                  /\ xor_16(pkt.buttons, last_buttons) # ZeroButtons
                                  /\ failAt \in {0, Len(ws)}
                               THEN pkt.buttons ELSE last_buttons
           /\ vjoy' = DeviceAfterAll(vjoy, made)
           /\ rx' = [dg |-> d, pkt |-> pkt, prev |-> last_seq,
                     verdict |-> g.verdict, writes |-> made]
           /\ rxPc' = IF failAt = 0 THEN "recv" ELSE "exited"
           /\ appliedIdx' = IF g.verdict = "applied" THEN Append(appliedIdx, d.idx)
                                                      ELSE appliedIdx
           /\ maxDelivered' = IF pkt.ok /\ (maxDelivered = NoneOpt
                                             \/ d.idx > Unwrap(maxDelivered).idx)
                               THEN Some(d) ELSE maxDelivered
           /\ windowOk' = (windowOk /\ (pkt.ok =>
                              (appliedIdx = <<>>
                               \/ Abs(d.idx - appliedIdx[Len(appliedIdx)]) < HALF_RANGE)))
           /\ trackerDev' = IF g.verdict = "applied" THEN Some(d.dev) ELSE trackerDev
    /\ UNCHANGED <<senderVars, envVars, hat_mode, hats_enabled, capHist,
                   sendHist, fnVars>>

\* the receive loop in a run of MaxRecv datagrams
Receive(d, keep, failAt) ==
    /\ stats.received < MaxRecv
    /\ ReceiveOne(d, keep, failAt)

\* ------------------------------------------------------------------------
\* Pure-function harness: the encoders and the decoder applied to inputs
\* ------------------------------------------------------------------------

CodecEncode ==
    /\ fnOut.stage = "input"
    /\ fnOut' = [fnOut EXCEPT
                   !.stage = "encoded",
                   !.buf = IF fnIn.variant = "single"
                           THEN encode_vkb2(fnIn.seq, fnIn.st, fnIn.ranges)
                           ELSE encode_vkb2_multi(fnIn.seq, fnIn.dev, fnIn.st)]
    /\ UNCHANGED <<senderVars, envVars, net, rxVars, capHist, sendHist, rxHist, fnIn>>

CodecDecode ==
    /\ fnOut.stage = "encoded"
    /\ fnOut' = [fnOut EXCEPT !.stage = "decoded", !.pkt = decode_vkb2(fnOut.buf)]
    /\ UNCHANGED <<senderVars, envVars, net, rxVars, capHist, sendHist, rxHist, fnIn>>

\* hatstate_from_xy applied to the harness input
HatApply ==
    /\ fnOut.stage = "hat input"
    /\ fnOut' = [stage |-> "hat done",
                 hat   |-> hatstate_from_xy(fnIn.x, fnIn.y, fnIn.mode)]
    /\ UNCHANGED <<senderVars, envVars, net, rxVars, capHist, sendHist, rxHist, fnIn>>

\* normalize_axis applied to the harness input: two raw values of one axis
NormApply ==
    /\ fnOut.stage = "norm input"
    /\ fnOut' = [stage |-> "norm done",
                 num   |-> NormNum(fnIn.raw, fnIn.r),
                 out   |-> normalize_axis(fnIn.raw, fnIn.r),
                 out2  |-> normalize_axis(fnIn.raw2, fnIn.r)]
    /\ UNCHANGED <<senderVars, envVars, net, rxVars, capHist, sendHist, rxHist, fnIn>>

\* ------------------------------------------------------------------------
\* Inputs of the model
\* ------------------------------------------------------------------------

\* AxisRange tables as build_axis_ranges may return them (slot 3 degenerate)
RangeTableA ==
    <<[min |-> -8, max |-> 8], [min |-> 0, max |-> 4], [min |-> 3, max |-> 3],
      [min |-> 0, max |-> 1023], [min |-> -7, max |-> 7], [min |-> 0, max |-> 255],
      [min |-> 0, max |-> 7], [min |-> -8, max |-> 8]>>

RangeTableB == [i \in 1..8 |-> [min |-> 0, max |-> 6 * i]]

HatModes == {Discrete("Centered"), Continuous(U32Max)}

\* events of every match arm, with values that repeat, change and exceed the
\* hat's range; key 415 is the last mapped key (id 128), 416 is supported but
\* beyond the 128 ids, 100 is not a key of the device
AllEvents ==
    {AbsEvent("ABS_HAT0X", v) : v \in {-3, 0, 1}}
    \cup {AbsEvent("ABS_HAT0Y", v) : v \in {-3, 1}}
    \cup {AbsEvent("ABS_X", 0), AbsEvent("ABS_X", 9), AbsEvent("ABS_RUDDER", -7),
          AbsEvent("ABS_WHEEL", 9)}
    \cup {KeyEvent(288, 1), KeyEvent(288, 0), KeyEvent(297, 1), KeyEvent(415, 2),
          KeyEvent(415, 0), KeyEvent(416, 1), KeyEvent(100, 1)}
    \cup {OtherEvent}

FewEvents == {KeyEvent(297, 1), KeyEvent(416, 1)}

TwoEvents == {AbsEvent("ABS_X", 9), KeyEvent(416, 1)}

\* the sender's history when the run starts: datagrams already sent (and
\* lost, unless listed as still in flight)
SendStarts ==
    {[done |-> 0, stale |-> {}], [done |-> 65535, stale |-> {}],
     [done |-> 32768, stale |-> {0}]}

ZeroBuf(v) == [i \in 1..(IF v = "single" THEN 42 ELSE 43) |-> 0]

NoDatagram == [dev |-> 0, idx |-> 0, bytes |-> <<>>]

IdleHarness ==
    /\ fnIn = [variant |-> "single", seq |-> 0, dev |-> 0,
               st |-> DefaultState("single"), ranges |-> RangeTableA]
    /\ fnOut = [stage |-> "idle", buf |-> <<>>, pkt |-> DecodeErr("")]

\* no failure is reported in the run
NoFaults == [missing |-> {}, fetch |-> FALSE, send |-> FALSE, vjoy |-> {0}]

\* the state of the two programs with the sender's main thread at pc0:
\* "open" is main about to open its first device (no capture thread spawned,
\* every SharedState at its default), "tick" is the state after startup (the
\* tables built, the capture threads spawned and blocked in their first
\* fetch, the pacer about to enter its loop). The receiver is about to enter
\* its loop. `start` is the pacer's earlier history, `rev0` the revision the
\* run starts from, `flt` the failures the environment may report, `tm` the
\* run's timing. The clock reads 0 and `next` holds that reading.
InitProgramTimed(tm, pc0, flt, v, ord, tbl, rev0, start, pool, budget, link, mode, hats) ==
    LET D == {ord[i] : i \in 1..Len(ord)}
        st0 == IF pc0 = "open" THEN DefaultState(v)
               ELSE IF v = "single"
               THEN [DefaultState(v) EXCEPT !.revision = rev0]
               ELSE [DefaultState(v) EXCEPT !.revision = rev0, !.axis_range = tbl]
    IN  /\ variant = v
        /\ order = ord
        /\ ranges = [k \in D |-> tbl]
        /\ shared = [k \in D |-> st0]
        /\ lock = [k \in D |-> "free"]
        /\ inputPc = [k \in D |-> IF pc0 = "open" THEN "unspawned" ELSE "fetch"]
        /\ ev = [k \in D |-> NoEvent]
        /\ changed = [k \in D |-> FALSE]
        /\ senderPc = pc0
        /\ devIdx = 1
        /\ snapshot = st0
        /\ buf = ZeroBuf(v)
        /\ seqs = [k \in D |-> start.done % U16]
        /\ next = 0
        /\ clock = 0
        /\ timing = tm
        /\ tickAt = <<>>
        /\ overruns = <<>>
        /\ evPool = pool
        /\ evLeft = [k \in D |-> budget[k]]
        /\ linkUp = link
        /\ faults = flt
        /\ net = {[dev |-> k, idx |-> i,
                   bytes |-> IF v = "single"
                             THEN encode_vkb2(i % U16, DefaultState(v), tbl)
                             ELSE encode_vkb2_multi(i % U16, k, [DefaultState(v) EXCEPT !.axis_range = tbl])]
                    : k \in D, i \in start.stale}
        /\ hat_mode = mode
        /\ hats_enabled = hats
        /\ last_seq = NoneOpt
        /\ last_buttons = ZeroButtons
        /\ stats = [received |-> 0, applied |-> 0, bad |-> 0, dup |-> 0,
                    ooo |-> 0, lost_est |-> 0]
        /\ vjoy = [axes |-> [i \in 1..8 |-> 0], hat |-> mode, buttons |-> {},
                   commits |-> 0]
        /\ rx = [dg |-> NoDatagram, pkt |-> DecodeErr(""), prev |-> NoneOpt,
                 verdict |-> "none", writes |-> <<>>]
        /\ rxPc = "recv"
        /\ sendStart = [k \in D |-> start.done]
        /\ sent = [k \in D |-> <<>>]
        /\ ticks = 0
        /\ failed = NoneOpt
        /\ hist = [k \in D |-> {st0}]
        /\ latest = [k \in D |-> NoObservation]
        /\ nChanges = [k \in D |-> 0]
        /\ revStart = [k \in D |-> rev0]
        /\ appliedIdx = <<>>
        /\ maxDelivered = NoneOpt
        /\ windowOk = TRUE
        /\ trackerDev = NoneOpt

\* a run of MaxTicks ticks in which no time passes but in the pacer's
\* sleep, which returns exactly at the wake time
OnTime == [ticks |-> MaxTicks, late |-> {0}, horizon |-> 0]

InitProgramAt(pc0, flt, v, ord, tbl, rev0, start, pool, budget, link, mode, hats) ==
    InitProgramTimed(OnTime, pc0, flt, v, ord, tbl, rev0, start, pool, budget,
                     link, mode, hats)

\* the state after startup, in an environment that reports no failure
InitProgram(v, ord, tbl, rev0, start, pool, budget, link, mode, hats) ==
    InitProgramAt("tick", NoFaults, v, ord, tbl, rev0, start, pool, budget, link,
                  mode, hats)

\* ------------------------------------------------------------------------
\* Specifications
\* ------------------------------------------------------------------------

Capture ==
    \/ \E k \in Devs : InputFetch(k)
    \/ \E k \in Devs : InputSkip(k)
    \/ \E k \in Devs : InputLock(k)
    \/ \E k \in Devs : InputWrite(k)
    \/ \E k \in Devs : InputBump(k)
    \/ \E k \in Devs : InputUnlock(k)

Pacer ==
    \/ SenderTick
    \/ SenderLock
    \/ SenderCopy
    \/ SenderEncode
    \/ SenderSend
    \/ SenderPace

Channel == \E d \in net : NetDrop(d)

Receiver == \E d \in net, keep \in BOOLEAN, failAt \in faults.vjoy : Receive(d, keep, failAt)

\* Spec: the single-device sender, the channel and the receiver, end to end
Init ==
    /\ \E start \in SendStarts :
          InitProgram("single", <<0>>, RangeTableA, U64Zero, start, FewEvents,
                      [k \in {0} |-> 1], TRUE, Continuous(U32Max), TRUE)
    /\ IdleHarness

Next == Capture \/ Pacer \/ Channel \/ Receiver

Spec == Init /\ [][Next]_vars

\* SpecCapture: the single-device sender alone, its datagrams leaving for a
\* host that is not listening
InitCapture ==
    /\ \/ \E rev0 \in {U64Zero, U64Max} :
             InitProgram("single", <<0>>, RangeTableA, rev0, [done |-> 0, stale |-> {}],
                         AllEvents, [k \in {0} |-> MaxEvents], FALSE,
                         Discrete("Centered"), TRUE)
       \/ InitProgram("multi", <<2, 1>>, RangeTableA, U64Zero, [done |-> 0, stale |-> {}],
                      TwoEvents, [k \in {1, 2} |-> MaxEvents], FALSE,
                      Discrete("Centered"), TRUE)
    /\ IdleHarness

NextCapture == Capture \/ Pacer

SpecCapture == InitCapture /\ [][NextCapture]_vars

\* SpecMulti: the multi-device sender with two configured devices, the
\* channel and the receiver
MultiOrders == {<<1, 2>>, <<2, 1>>}

InitMulti ==
    /\ \E ord \in MultiOrders :
          InitProgram("multi", ord, RangeTableA, U64Zero, [done |-> 0, stale |-> {}],
                      FewEvents, [k \in {1, 2} |-> IF k = 1 THEN 1 ELSE 0], TRUE,
                      Discrete("Centered"), TRUE)
    /\ IdleHarness

NextMulti == Capture \/ Pacer \/ Channel \/ Receiver

SpecMulti == InitMulti /\ [][NextMulti]_vars

\* SpecPacer: the pacer of either variant alone, its datagrams left in flight
InitPacer ==
    /\ \E cfg \in {[v |-> "single", ord |-> <<0>>], [v |-> "multi", ord |-> <<1, 2>>],
                    [v |-> "multi", ord |-> <<2, 1>>], [v |-> "multi", ord |-> <<3>>]},
          start \in {0, 255, 65535} :
          InitProgram(cfg.v, cfg.ord, RangeTableA, U64Zero, [done |-> start, stale |-> {}],
                      FewEvents, [k \in {0, 1, 2, 3} |-> 0], TRUE,
                      Discrete("Centered"), TRUE)
    /\ IdleHarness

NextPacer == Pacer

SpecPacer == InitPacer /\ [][NextPacer]_vars

\* SpecRecv: the receiver alone, taking datagrams from the network: frames
\* of a single-device sender with sequence numbers 5..7 and growing button
\* sets, a frame followed by two more bytes, a frame of the multi-device
\* sender, and datagrams that are no frames
Frame(seq, pressed) ==
    encode_vkb2(seq,
                [DefaultState("single") EXCEPT
                    !.axes_raw = [i \in 1..8 |-> i - 4], !.hat_x = 1, !.hat_y = -1,
                    !.buttons = [i \in 1..16 |-> pressed[i]]],
                RangeTableA)

ButtonsOf(ids) ==
    [i \in 1..16 |->
        LET b(j) == IF 8 * (i - 1) + j + 1 \in ids THEN 2 ^ j ELSE 0
        IN  b(0) + b(1) + b(2) + b(3) + b(4) + b(5) + b(6) + b(7)]

Frames ==
    {[dev |-> 0, idx |-> 5, bytes |-> Frame(5, ButtonsOf({1}))],
     [dev |-> 0, idx |-> 6, bytes |-> Frame(6, ButtonsOf({1, 9}))],
     [dev |-> 0, idx |-> 7, bytes |-> Frame(7, ButtonsOf({1, 9, 10}))]}

LongFrames ==
    {[dev |-> 0, idx |-> 8, bytes |-> Frame(8, ButtonsOf({128})) \o <<7, 7>>],
     [dev |-> 1, idx |-> 1,
      bytes |-> encode_vkb2_multi(1, 1, [DefaultState("multi") EXCEPT !.axis_range = RangeTableA])]}

NoFrames ==
    {[dev |-> 0, idx |-> 0, bytes |-> <<>>],
     [dev |-> 0, idx |-> 0, bytes |-> SubSeq(Frame(6, ButtonsOf({2})), 1, 41)],
     [dev |-> 0, idx |-> 0, bytes |-> [Frame(6, ButtonsOf({2})) EXCEPT ![4] = 49]],
     [dev |-> 0, idx |-> 0, bytes |-> [Frame(6, ButtonsOf({2})) EXCEPT ![5] = 3]]}

Inbound == Frames \cup LongFrames \cup NoFrames

\* the virtual device's calls may fail at the hat write
RecvFaults == [NoFaults EXCEPT !.vjoy = {0, 9}]

InitRecv ==
    /\ InitProgramAt("tick", RecvFaults, "single", <<0>>, RangeTableA, U64Zero,
                     [done |-> 0, stale |-> {}], FewEvents, [k \in {0} |-> 0],
                     FALSE, Continuous(U32Max), TRUE)
    /\ IdleHarness

NextRecv == (\E d \in Inbound : NetInject(d)) \/ Receiver

SpecRecv == InitRecv /\ [][NextRecv]_vars

\* SpecFaults: the sender of either variant from the start of main, in an
\* environment where at most one configured device cannot be opened, any
\* fetch of events may fail and any send may fail
Startup == MainOpen \/ MainOpenFail

CaptureOf(k) ==
    /\ k \in Devs
    /\ \/ InputFetch(k)
       \/ InputSkip(k)
       \/ InputLock(k)
       \/ InputWrite(k)
       \/ InputBump(k)
       \/ InputUnlock(k)

AllDevs == {0, 1, 2}

InitFaults ==
    /\ \E cfg \in {[v |-> "single", ord |-> <<0>>], [v |-> "multi", ord |-> <<1, 2>>],
                    [v |-> "multi", ord |-> <<2, 1>>]} :
       \E gone \in {{}} \cup {{cfg.ord[i]} : i \in 1..Len(cfg.ord)} :
          InitProgramAt("open",
                        [missing |-> gone, fetch |-> TRUE, send |-> TRUE, vjoy |-> {0}],
                        cfg.v, cfg.ord, RangeTableA, U64Zero, [done |-> 0, stale |-> {}],
                        TwoEvents, [k \in AllDevs |-> 1], TRUE, Discrete("Centered"), TRUE)
    /\ IdleHarness

NextFaults ==
    \/ Startup
    \/ Capture
    \/ \E k \in Devs : InputFetchFail(k)
    \/ Pacer
    \/ SenderSendFail

\* the scheduler runs every thread that can take a step; no fairness for
\* the failures
SpecFaults ==
    /\ InitFaults
    /\ [][NextFaults]_vars
    /\ WF_vars(Startup)
    /\ WF_vars(Pacer)
    /\ \A k \in AllDevs : WF_vars(CaptureOf(k))

\* SpecHat: hatstate_from_xy on hat bytes of a packet, which are any i8
HatSamples == {-128, -3, -2, -1, 0, 1, 2, 3, 127}

InitHat ==
    /\ InitProgram("single", <<0>>, RangeTableA, U64Zero, [done |-> 0, stale |-> {}],
                   FewEvents, [k \in {0} |-> 0], FALSE, Discrete("Centered"), TRUE)
    /\ \E x \in HatSamples, y \in HatSamples, mode \in HatModes :
          fnIn = [x |-> x, y |-> y, mode |-> mode]
    /\ fnOut = [stage |-> "hat input", hat |-> NoHat]

NextHat == HatApply

SpecHat == InitHat /\ [][NextHat]_vars

\* SpecNorm: normalize_axis on i32 raw values and ranges, up to i32::MIN and
\* i32::MAX
RawSamples ==
    {-2147483647 - 1, -2147483647, -65536, -9, -8, -7, -1, 0, 1, 2, 3, 4, 7, 8,
     9, 1023, 65535, 65536, 2147483646, 2147483647}

RangeSamples ==
    {[min |-> -8, max |-> 8], [min |-> 0, max |-> 4], [min |-> 3, max |-> 3],
     [min |-> 0, max |-> 1023], [min |-> 0, max |-> 65535], [min |-> -65536, max |-> 65536],
     [min |-> -2147483647 - 1, max |-> 2147483647],
     [min |-> -2147483647 - 1, max |-> -2147483647],
     [min |-> 2147483646, max |-> 2147483647],
     [min |-> -1, max |-> 2147483647], [min |-> -2147483647 - 1, max |-> 0],
     [min |-> -2147483647 - 1, max |-> -2147483647 - 1],
     [min |-> 2147483647, max |-> 2147483647],
     [min |-> 8, max |-> -8]}

InitNorm ==
    /\ InitProgram("single", <<0>>, RangeTableA, U64Zero, [done |-> 0, stale |-> {}],
                   FewEvents, [k \in {0} |-> 0], FALSE, Discrete("Centered"), TRUE)
    /\ \E raw \in RawSamples, raw2 \in RawSamples, r \in RangeSamples :
          fnIn = [raw |-> raw, raw2 |-> raw2, r |-> r]
    /\ fnOut = [stage |-> "norm input", num |-> NormNum(0, DefaultRange), out |-> 0,
                out2 |-> 0]

NextNorm == NormApply

SpecNorm == InitNorm /\ [][NextNorm]_vars

\* SpecCodec: the encoders and the decoder on sampled inputs
SeqSamples == {0, 1, 255, 256, 513, 32767, 32768, 65535}

AxisSamples ==
    {[i \in 1..8 |-> 0], [i \in 1..8 |-> i - 4], [i \in 1..8 |-> 9 * i - 20]}

ButtonSamples ==
    {ZeroButtons, [i \in 1..16 |-> 255], [i \in 1..16 |-> IF i = 2 THEN 1 ELSE 0],
     [i \in 1..16 |-> (37 * i) % 256]}

InitCodec ==
    /\ InitProgram("single", <<0>>, RangeTableA, U64Zero, [done |-> 0, stale |-> {}],
                   FewEvents, [k \in {0} |-> 0], FALSE, Discrete("Centered"), TRUE)
    /\ \E v \in {"single", "multi"}, s \in SeqSamples, a \in AxisSamples,
          hx \in {-1, 0, 1}, hy \in {-1, 0, 1}, b \in ButtonSamples,
          tbl \in {RangeTableA, RangeTableB}, id \in {1, 2} :
          fnIn = [variant |-> v, seq |-> s, dev |-> id, ranges |-> tbl,
                  st |-> IF v = "single"
                         THEN [DefaultState(v) EXCEPT !.axes_raw = a, !.hat_x = hx,
                                                      !.hat_y = hy, !.buttons = b]
                         ELSE [DefaultState(v) EXCEPT !.axes_raw = a, !.hat_x = hx,
                                                      !.hat_y = hy, !.buttons = b,
                                                      !.axis_range = tbl]]
    /\ fnOut = [stage |-> "input", buf |-> <<>>, pkt |-> DecodeErr("")]

NextCodec == CodecEncode \/ CodecDecode

SpecCodec == InitCodec /\ [][NextCodec]_vars

\* ------------------------------------------------------------------------
\* Properties
\* ------------------------------------------------------------------------

\* a receive-loop iteration that decoded its datagram has just run
DecodedStep == stats'.received = stats.received + 1 /\ rx'.pkt.ok

\* (s - p) mod 2^16
SeqDiff(s, p) == ((s - p) + 65536) % 65536

StrictlyIncreasing(q) == \A i \in 1..(Len(q) - 1) : q[i] < q[i + 1]

\* the ids of the bits set in a 16-byte button set
PressedIds(b) == {n + 1 : n \in {m \in 0..127 : Bit(b[(m \div 8) + 1], m % 8) = 1}}

\* C1 (Spec): as long as every delivered datagram was fewer than 32768 sends
\* away from the most recently applied one, the applied datagrams are in
\* strictly increasing send order (none twice), the last one applied is the
\* newest one delivered, and the tracker, the last-applied buttons and the
\* virtual device hold what that newest datagram carried: no stale or
\* duplicated datagram has overwritten it.
LatestWins ==
    windowOk =>
        /\ StrictlyIncreasing(appliedIdx)
        /\ IsSome(maxDelivered) =>
              LET newest == Unwrap(maxDelivered)
                  p      == decode_vkb2(newest.bytes)
              IN  /\ appliedIdx # <<>>
                  /\ appliedIdx[Len(appliedIdx)] = newest.idx
                  /\ last_seq = Some(newest.idx % 65536)
                  /\ vjoy.axes = p.axes
                  /\ last_buttons = p.buttons
                  /\ vjoy.buttons = PressedIds(p.buttons)

\* C1 witness: across the wrap 65535 -> 0, two datagrams applied in order and
\* a late copy of the older one turned away
LatestWinsWitness ==
    /\ windowOk
    /\ appliedIdx = <<65535, 65536>>
    /\ last_seq = Some(0)
    /\ stats.ooo = 1

\* C2 (Spec): a decoded packet with sequence s is applied iff the tracker is
\* Uninitialized, or it is Tracking(p) and diff = (s - p) mod 2^16 is neither
\* 0 nor >= 32768; an applied packet leaves the tracker at Tracking(s).
GateApplyRule ==
    [][DecodedStep =>
         LET s       == rx'.pkt.seq
             isApply == stats'.applied = stats.applied + 1
         IN  /\ isApply <=> \/ last_seq = NoneOpt
                             \/ /\ SeqDiff(s, Unwrap(last_seq)) # 0
                                /\ SeqDiff(s, Unwrap(last_seq)) < 32768
             /\ isApply <=> rx'.writes # <<>>
             /\ isApply => last_seq' = Some(s)
             /\ ~isApply => stats'.applied = stats.applied]_vars

\* C2 witness: in Tracking(65535) the packet with sequence 0 was applied
GateApplyWitness ==
    /\ rx.verdict = "applied"
    /\ rx.prev = Some(65535)
    /\ last_seq = Some(0)
    /\ stats.applied = 2

\* C3 (Spec): in Tracking(p) a decoded packet with seq = p counts as a
\* duplicate: dup grows by one, nothing is written or committed to the
\* virtual device, the last-applied buttons and the tracker stay as they are.
DuplicateDropped ==
    [][(DecodedStep /\ IsSome(last_seq) /\ rx'.pkt.seq = Unwrap(last_seq)) =>
         /\ stats'.dup = stats.dup + 1
         /\ stats'.applied = stats.applied
         /\ stats'.ooo = stats.ooo
         /\ rx'.writes = <<>>
         /\ vjoy' = vjoy
         /\ last_buttons' = last_buttons
         /\ last_seq' = last_seq]_vars

\* C3 witness: a second copy of the applied datagram, carrying a pressed
\* button, was counted as a duplicate
DuplicateWitness ==
    /\ rx.verdict = "dup"
    /\ stats.dup = 1
    /\ rx.pkt.buttons # ZeroButtons
    /\ Some(rx.pkt.seq) = last_seq

\* C4 (Spec): in Tracking(p) a decoded packet with (s - p) mod 2^16 >= 32768
\* counts as out-of-order: ooo grows by one, nothing is written or committed
\* to the virtual device, the last-applied buttons and the tracker stay as
\* they are.
OutOfOrderDropped ==
    [][(DecodedStep /\ IsSome(last_seq)
          /\ SeqDiff(rx'.pkt.seq, Unwrap(last_seq)) >= 32768) =>
         /\ stats'.ooo = stats.ooo + 1
         /\ stats'.applied = stats.applied
         /\ stats'.dup = stats.dup
         /\ rx'.writes = <<>>
         /\ vjoy' = vjoy
         /\ last_buttons' = last_buttons
         /\ last_seq' = last_seq]_vars

\* C4 witness: a packet exactly half the sequence space away was turned away
OutOfOrderWitness ==
    /\ rx.verdict = "ooo"
    /\ IsSome(rx.prev)
    /\ SeqDiff(rx.pkt.seq, Unwrap(rx.prev)) = 32768
    /\ stats.ooo = 1

\* C5 (SpecMulti): a packet is classified duplicate or out-of-order only
\* against a sequence number received from its own source device.
PerDeviceTracker ==
    rx.verdict \in {"dup", "ooo"} => trackerDev = Some(rx.dg.dev)

\* C6 (SpecCapture): whatever the interleaving, the pacer's copy is a
\* SharedState as it stood after a whole number of completed event updates.
NoTornReads == senderPc \in {"encode", "send"} => snapshot \in hist[cur]

\* C6 witness: the pacer copied a snapshot while the capture thread was
\* waiting for the lock with a changing event in hand, and the copy carries
\* an earlier update
NoTornReadsWitness ==
    \E k \in Devs :
        /\ senderPc = "encode"
        /\ cur = k
        /\ inputPc[k] = "match"
        /\ TakesLock(ev[k])
        /\ snapshot.revision # revStart[k]
        /\ snapshot = shared[k]

RECURSIVE U64Add(_, _)
U64Add(r, n) == IF n = 0 THEN r ELSE U64Add(U64Inc(r), n - 1)

\* C7 (SpecCapture): between events, revision equals its starting value plus
\* the number of events that changed the value of their control (mod 2^64):
\* one step per real change, none for a repeated value, an unknown axis or an
\* unmapped key.
RevisionCountsChanges ==
    \A k \in Devs :
        inputPc[k] = "fetch" => shared[k].revision = U64Add(revStart[k], nChanges[k])

\* C7 witness: two events processed, one a real change and one not, and the
\* revision wrapped from 2^64 - 1 to 0
RevisionWitness ==
    \E k \in Devs :
        /\ inputPc[k] = "fetch"
        /\ MaxEvents - evLeft[k] >= 2
        /\ nChanges[k] = 1
        /\ revStart[k] = U64Max
        /\ shared[k].revision = U64Zero

\* C8 (SpecCapture): between events, every field holds the latest event
\* value of its control (hats clamped, a mapped button's bit set iff the
\* latest key value is not 0), and zero where no event came.
FieldsReflectLatest ==
    \A k \in Devs :
        inputPc[k] = "fetch" =>
            /\ shared[k].axes_raw = latest[k].axes
            /\ shared[k].hat_x = latest[k].hat_x
            /\ shared[k].hat_y = latest[k].hat_y
            /\ \A key \in DOMAIN button_map :
                  LET id == button_map[key]
                  IN  (Bit(shared[k].buttons[((id - 1) \div 8) + 1], (id - 1) % 8) = 1)
                          <=> key \in latest[k].pressed
            /\ PressedIds(shared[k].buttons) \subseteq {button_map[key] : key \in DOMAIN button_map}

\* C8 witness: a hat event beyond the range and a press of the last mapped
\* key have been processed
FieldsWitness ==
    \E k \in Devs :
        /\ inputPc[k] = "fetch"
        /\ shared[k].hat_y = -1
        /\ shared[k].buttons[16] = 128
        /\ shared[k].hat_x = 0

\* C9 (SpecPacer): the sequence numbers a device's datagrams carry are
\* consecutive mod 65536 from the first on; at the end of every tick each
\* configured device has sent exactly one datagram per tick, and its counter
\* is one past the last number sent.
PacerSequencing ==
    \A k \in Devs :
        /\ \A i \in 1..Len(sent[k]) : sent[k][i] = (sendStart[k] + i - 1) % 65536
        /\ senderPc = "tick" => Len(sent[k]) = ticks
        /\ senderPc = "pace" => Len(sent[k]) = ticks + 1
        /\ senderPc \in {"tick", "pace"} => seqs[k] = (sendStart[k] + Len(sent[k])) % 65536
        /\ \A d \in net : d.dev = k => SeqOnWire(d.bytes) = d.idx % 65536
        /\ Cardinality({d \in net : d.dev = k}) = Len(sent[k])

\* C9 witness: two devices, two ticks, each device's numbers wrapped
PacerWitness ==
    /\ variant = "multi"
    /\ Cardinality(Devs) = 2
    /\ ticks = 2
    /\ \A k \in Devs : sent[k] = <<65535, 0>>

\* C10 (SpecCodec): decoding the 42-byte frame of (seq, snapshot) succeeds
\* and gives back seq, the signed hats, the button set, and each axis
\* normalized.
RoundTripSingle ==
    (fnOut.stage = "decoded" /\ fnIn.variant = "single") =>
        /\ Len(fnOut.buf) = 42
        /\ fnOut.pkt.ok
        /\ fnOut.pkt.seq = fnIn.seq
        /\ fnOut.pkt.hat_x = fnIn.st.hat_x
        /\ fnOut.pkt.hat_y = fnIn.st.hat_y
        /\ fnOut.pkt.buttons = fnIn.st.buttons
        /\ \A i \in 1..8 :
              fnOut.pkt.axes[i] = normalize_axis(fnIn.st.axes_raw[i], fnIn.ranges[i])

\* C10 witness: a frame with a two-byte sequence number, negative hats and
\* buttons set has been decoded
RoundTripWitness ==
    /\ fnOut.stage = "decoded"
    /\ fnIn.variant = "single"
    /\ fnIn.seq = 513
    /\ fnIn.st.hat_x = -1
    /\ fnIn.st.hat_y = -1
    /\ fnIn.st.buttons[2] = 1
    /\ fnOut.pkt.axes[1] # fnOut.pkt.axes[8]

\* C11 (SpecCodec): decoding the 43-byte frame the multi-device encoder
\* produced for (seq, device id, snapshot) succeeds and gives back seq, the
\* signed hats, the button set, and each axis normalized.
RoundTripMulti ==
    (fnOut.stage = "decoded" /\ fnIn.variant = "multi") =>
        /\ fnOut.pkt.ok
        /\ fnOut.pkt.seq = fnIn.seq
        /\ fnOut.pkt.hat_x = fnIn.st.hat_x
        /\ fnOut.pkt.hat_y = fnIn.st.hat_y
        /\ fnOut.pkt.buttons = fnIn.st.buttons
        /\ \A i \in 1..8 :
              fnOut.pkt.axes[i] = normalize_axis(fnIn.st.axes_raw[i], fnIn.st.axis_range[i])

\* a receive-loop iteration has just run
RecvStep == stats'.received = stats.received + 1

\* shorter than the frame, or not starting with "VKB2", or not version 2
Malformed(b) ==
    \/ Len(b) < 42
    \/ <<b[1], b[2], b[3], b[4]>> # <<86, 75, 66, 50>>
    \/ b[5] # 2

\* C12 (SpecRecv): a datagram shorter than 42 bytes, or not starting with
\* "VKB2", or whose version byte is not 2, adds one to bad and to received
\* and nothing else: no call on the virtual device, the tracker, the
\* last-applied buttons and the device as before, and the receiver still in
\* its loop.
BadCounted ==
    [][(RecvStep /\ Malformed(rx'.dg.bytes)) =>
         /\ stats'.bad = stats.bad + 1
         /\ stats'.applied = stats.applied
         /\ stats'.dup = stats.dup
         /\ stats'.ooo = stats.ooo
         /\ stats'.lost_est = stats.lost_est
         /\ rx'.writes = <<>>
         /\ last_seq' = last_seq
         /\ last_buttons' = last_buttons
         /\ vjoy' = vjoy
         /\ rxPc' = "recv"]_vars

\* C12 witness: after an applied frame, a too-short datagram and one of
\* version 3 have been counted as bad, and the loop is still running
BadCountedWitness ==
    /\ rx.verdict = "bad"
    /\ Len(rx.dg.bytes) = 42
    /\ rx.dg.bytes[5] = 3
    /\ stats.bad = 2
    /\ stats.applied = 1
    /\ IsSome(last_seq)
    /\ rxPc = "recv"

\* C13 (SpecRecv): only a datagram of exactly the frame length is decoded.
OnlyExactLength == rx.pkt.ok => Len(rx.dg.bytes) = 42

\* the set_button calls among the calls ws, in order
ButtonCalls(ws) == SelectSeq(ws, LAMBDA w : w.op = "button")

\* bit n (0-based, LSB of byte 0 first) of a 16-byte set
BitOf(b, n) == (b[(n \div 8) + 1] \div (2 ^ (n % 8))) % 2

\* a packet has just been applied, every call on the device succeeding
AppliedStep == RecvStep /\ stats'.applied = stats.applied + 1 /\ rxPc' = "recv"

\* C17 (SpecRecv): applying a packet makes exactly one set_button call for
\* each bit in which its buttons differ from the last-applied set, with id
\* byte * 8 + bit + 1 and the packet's bit as state, none for an unchanged
\* bit, and leaves the packet's buttons as the last-applied set.
ButtonDiff ==
    [][AppliedStep =>
         LET calls == ButtonCalls(rx'.writes)
             pb    == rx'.pkt.buttons
         IN  /\ \A n \in 0..127 :
                   Cardinality({j \in 1..Len(calls) : calls[j].id = n + 1})
                       = IF BitOf(pb, n) # BitOf(last_buttons, n) THEN 1 ELSE 0
             /\ \A j \in 1..Len(calls) :
                   /\ calls[j].id \in 1..128
                   /\ calls[j].val = BitOf(pb, calls[j].id - 1)
             /\ last_buttons' = pb]_vars

\* C17 witness: the second applied packet released buttons 1, 9 and 10 and
\* pressed button 128
ButtonDiffWitness ==
    /\ rx.verdict = "applied"
    /\ rxPc = "recv"
    /\ stats.applied = 2
    /\ {<<w.id, w.val>> : w \in {rx.writes[j] : j \in {i \in 1..Len(rx.writes) : rx.writes[i].op = "button"}}}
          = {<<1, 0>>, <<9, 0>>, <<10, 0>>, <<128, 1>>}
    /\ last_buttons[16] = 128

\* the 16-byte set with only bit `bit` of byte `byte` set (both 0-based)
OnlyBit(byte, bit) == [i \in 1..16 |-> IF i = byte + 1 THEN 2 ^ bit ELSE 0]

\* the bytewise difference of two button sets, as the set of differing bits
Differing(a, b) == {n \in 0..127 : BitOf(a, n) # BitOf(b, n)}

\* C18, as stated (SpecRecv): a packet applied after one from which it
\* differs in exactly byte 1, bit 0 makes exactly one set_button call, to
\* id 10.
ByteOneBitZeroWritesTen ==
    [][(AppliedStep /\ Differing(rx'.pkt.buttons, last_buttons) = Differing(OnlyBit(1, 0), ZeroButtons)) =>
         /\ Len(ButtonCalls(rx'.writes)) = 1
         /\ ButtonCalls(rx'.writes)[1].id = 10]_vars

\* C18, amended (SpecRecv): a packet applied after one from which it differs
\* in exactly bit 9 (byte 1, bit 1) makes exactly one set_button call, to id
\* 10; one that differs in exactly byte 1, bit 0 (bit 8) makes exactly one,
\* to id 9.
BitNineWritesTen ==
    [][AppliedStep =>
         /\ Differing(rx'.pkt.buttons, last_buttons) = {9} =>
               /\ Len(ButtonCalls(rx'.writes)) = 1
               /\ ButtonCalls(rx'.writes)[1].id = 10
         /\ Differing(rx'.pkt.buttons, last_buttons) = {8} =>
               /\ Len(ButtonCalls(rx'.writes)) = 1
               /\ ButtonCalls(rx'.writes)[1].id = 9]_vars

\* C18 witness: the packet with buttons 1, 9 and 10 was applied right after
\* the one with buttons 1 and 9, with one set_button call
BitNineWitness ==
    /\ rx.verdict = "applied"
    /\ rxPc = "recv"
    /\ rx.prev = Some(6)
    /\ rx.pkt.seq = 7
    /\ stats.applied = 2
    /\ rx.pkt.buttons[2] = 3
    /\ Len(ButtonCalls(rx.writes)) = 1

\* the main thread ended the process after failure `what`
Ended(what) == IsSome(failed) /\ Unwrap(failed).what = what

\* C14 (SpecFaults): a capture thread ended by a failed fetch holds no lock,
\* and unless an open or a send fails, the pacer goes on to send one datagram
\* per tick for every configured device, the ended one included, and every
\* other capture thread goes on to process all its events.
FetchFailureIsolated ==
    /\ [](\A k \in Devs : (inputPc[k] = "exited" /\ failed = NoneOpt) =>
                                (lock[k] # "input" /\ senderPc # "exited"))
    /\ <>[](\/ IsSome(failed)
            \/ /\ ticks = MaxTicks
               /\ \A k \in Devs :
                     /\ Len(sent[k]) = MaxTicks
                     /\ \/ inputPc[k] = "exited"
                        \/ inputPc[k] = "fetch" /\ evLeft[k] = 0)

\* C14 witness: one device's thread ended at its first fetch; the other
\* device's thread stored an axis change, and the pacer completed its ticks
\* for both devices
FetchFailureWitness ==
    \E k \in Devs, j \in Devs :
        /\ k # j
        /\ failed = NoneOpt
        /\ inputPc[k] = "exited"
        /\ evLeft[k] = 1
        /\ inputPc[j] = "fetch"
        /\ evLeft[j] = 0
        /\ shared[j].axes_raw[1] = 9
        /\ ticks = MaxTicks
        /\ Len(sent[k]) = MaxTicks
        /\ Len(sent[j]) = MaxTicks

\* C15 (SpecFaults): a configured device that cannot be opened ends neither
\* the pacer nor the capture threads of the devices that can.
OpenFailureIsolated ==
    Ended("open") =>
        /\ senderPc # "exited"
        /\ \A j \in Devs \ faults.missing : inputPc[j] # "exited"

\* the position of device k in the pacer's per-tick loop
PosInOrder(k) == CHOOSE i \in 1..Len(order) : order[i] = k

\* C16 (SpecFaults): a failed send ends the pacer and every capture thread;
\* the failed datagram is not on the wire, the devices later in the tick's
\* loop have sent nothing in this tick, and from then on nothing is sent.
SendFailureFatal ==
    /\ [](Ended("send") =>
            LET k == Unwrap(failed).dev
            IN  /\ senderPc = "exited"
                /\ \A j \in Devs : inputPc[j] = "exited"
                /\ \A j \in Devs :
                      /\ Len(sent[j]) = IF PosInOrder(j) < PosInOrder(k)
                                        THEN ticks + 1 ELSE ticks
                      /\ Cardinality({d \in net : d.dev = j}) = Len(sent[j]))
    /\ [][Ended("send") => (sent' = sent /\ net' = net /\ seqs' = seqs)]_vars

\* C16 witness: in the second tick the send for the second device failed
\* after the first device's datagram had been sent
SendFailureWitness ==
    /\ Ended("send")
    /\ Len(order) = 2
    /\ Unwrap(failed).dev = order[2]
    /\ ticks = 1
    /\ Len(sent[order[1]]) = 2
    /\ Len(sent[order[2]]) = 1
    /\ senderPc = "exited"

\* the sign of v: v clamped to {-1, 0, 1}
Sign(v) == IF v < 0 THEN -1 ELSE IF v > 0 THEN 1 ELSE 0

\* the eight directions clockwise from North, as (x, y) with y = -1 up
Compass == <<<<0, -1>>, <<1, -1>>, <<1, 0>>, <<1, 1>>, <<0, 1>>, <<-1, 1>>,
             <<-1, 0>>, <<-1, -1>>>>

\* C19 (SpecHat): with x and y clamped to {-1, 0, 1}: discrete mode gives
\* Centered for (0,0), North for y = -1 and South for y = 1 whatever x is,
\* East for (1,0) and West for (-1,0); continuous mode gives u32::MAX for
\* (0,0) and otherwise 4500 times the direction's place clockwise from North
\* (N 0, NE 4500, E 9000, SE 13500, S 18000, SW 22500, W 27000, NW 31500).
HatMapping ==
    fnOut.stage = "hat done" =>
        LET x == Sign(fnIn.x)
            y == Sign(fnIn.y)
            h == fnOut.hat
        IN  /\ h.kind = fnIn.mode.kind
            /\ h.kind = "Discrete" =>
                  h.dir = IF x = 0 /\ y = 0 THEN "Centered"
                          ELSE IF y = -1 THEN "North"
                          ELSE IF y = 1 THEN "South"
                          ELSE IF x = 1 THEN "East"
                          ELSE "West"
            /\ h.kind = "Continuous" =>
                  IF x = 0 /\ y = 0
                  THEN h.angle = <<65535, 65535>>
                  ELSE \E d \in 1..8 : /\ Compass[d] = <<x, y>>
                                       /\ h.angle = <<0, 4500 * (d - 1)>>

\* C19 witness: the hat bytes (127, -128) mapped to North-East, 45.00 degrees
HatMappingWitness ==
    /\ fnOut.stage = "hat done"
    /\ fnIn.x = 127
    /\ fnIn.y = -128
    /\ fnOut.hat.kind = "Continuous"
    /\ fnOut.hat.angle = <<0, 4500>>

\* C20 (SpecNorm): for min < max the result is in 0..32768, it is 0 at
\* raw = min and 32768 at raw = max, and of two raw values within [min, max]
\* the larger never gets the smaller result; for min = max the result is
\* 16384; and the product (raw - min) * 32768 is an i64 for all i32 raw and
\* min.
NormalizeContract ==
    fnOut.stage = "norm done" =>
        LET r == fnIn.r
        IN  /\ r.min < r.max =>
                  /\ fnOut.out \in 0..32768
                  /\ fnIn.raw = r.min => fnOut.out = 0
                  /\ fnIn.raw = r.max => fnOut.out = 32768
                  /\ (r.min <= fnIn.raw /\ fnIn.raw <= fnIn.raw2 /\ fnIn.raw2 <= r.max)
                        => fnOut.out <= fnOut.out2
            /\ r.min = r.max => fnOut.out = 16384
            /\ FitsI64(fnOut.num)

\* C20 witness: over the range i32::MIN..i32::MAX the raw values -1 and
\* i32::MAX gave 16383 and 32768, with a product of 47 bits
NormalizeWitness ==
    /\ fnOut.stage = "norm done"
    /\ fnIn.r = [min |-> -2147483647 - 1, max |-> 2147483647]
    /\ fnIn.raw = -1
    /\ fnIn.raw2 = 2147483647
    /\ fnOut.out = 16383
    /\ fnOut.out2 = 32768
    /\ fnOut.num.mag[1] > 0

\* ------------------------------------------------------------------------
\* SpecGate: the receiver alone, taking well-formed frames whose sequence
\* numbers exercise the gate (a gap, the wrap from 65535 to 0, a frame half
\* the range away) and one datagram that is no frame; the virtual device
\* reports no failure
\* ------------------------------------------------------------------------

GateSeqs == {0, 5, 6, 200, 32773, 65535}

GateFrames ==
    {[dev |-> 0, idx |-> s, bytes |-> Frame(s, ButtonsOf({1}))] : s \in GateSeqs}
        \cup {[dev |-> 0, idx |-> 0, bytes |-> <<>>]}

InitGate ==
    /\ InitProgramAt("tick", NoFaults, "single", <<0>>, RangeTableA, U64Zero,
                     [done |-> 0, stale |-> {}], FewEvents, [k \in {0} |-> 0],
                     FALSE, Continuous(U32Max), TRUE)
    /\ IdleHarness

NextGate == (\E d \in GateFrames : NetInject(d)) \/ Receiver

SpecGate == InitGate /\ [][NextGate]_vars

\* the iteration that has just run counted its datagram as applied
AppliedNow == stats'.applied = stats.applied + 1

\* C21 (SpecGate): a packet applied in Tracking(p) adds diff - 1 to lost_est,
\* diff = (s - p) mod 2^16 (nothing for 65535 -> 0, 194 for 5 -> 200); the
\* bootstrap packet and a duplicate, out-of-order or bad one add nothing;
\* and whether a packet is applied is decided by p and s alone, whatever
\* lost_est holds.
LostEstimate ==
    [][RecvStep =>
         LET pk    == rx'.pkt
             diff  == (pk.seq - Unwrap(last_seq) + 65536) % 65536
             newer == pk.ok /\ IsSome(last_seq) /\ diff # 0 /\ diff < 32768
         IN  /\ AppliedNow <=> (pk.ok /\ (last_seq = NoneOpt \/ newer))
             /\ stats'.lost_est = stats.lost_est + (IF newer THEN diff - 1 ELSE 0)
             /\ (pk.ok /\ last_seq = Some(65535) /\ pk.seq = 0)
                    => AppliedNow /\ stats'.lost_est = stats.lost_est
             /\ (pk.ok /\ last_seq = Some(5) /\ pk.seq = 200)
                    => AppliedNow /\ stats'.lost_est = stats.lost_est + 194]_vars

\* C21 witness: after a datagram that was not applied and the bootstrap
\* packet 5, packet 200 has been applied and lost_est is 194
LostEstimateWitness ==
    /\ stats.received = 3
    /\ stats.applied = 2
    /\ rx.prev = Some(5)
    /\ last_seq = Some(200)
    /\ stats.lost_est = 194

\* ------------------------------------------------------------------------
\* SpecTimed: the pacer of either sender on a host whose clock runs: time
\* passes between any two steps, a sleep may return late, and the run lasts
\* one tick more than MaxTicks, so that ticks follow an overrun
\* ------------------------------------------------------------------------

Timed == [ticks |-> MaxTicks + 1, late |-> {0, 1}, horizon |-> Horizon]

InitTimed ==
    /\ \E cfg \in {[v |-> "single", ord |-> <<0>>], [v |-> "multi", ord |-> <<1, 2>>]} :
          InitProgramTimed(Timed, "tick", NoFaults, cfg.v, cfg.ord, RangeTableA,
                           U64Zero, [done |-> 0, stale |-> {}], FewEvents,
                           [k \in {cfg.ord[i] : i \in 1..Len(cfg.ord)} |-> 0],
                           FALSE, Continuous(U32Max), TRUE)
    /\ IdleHarness

NextTimed == Pacer \/ TimePasses

SpecTimed == InitTimed /\ [][NextTimed]_vars

\* (a period is 2 units of the clock)
\* the wake time advances by one period at the top of every tick; at the
\* end of the iteration it is reset to the time read if that time has
\* reached it, and otherwise it is kept and the pacer sleeps up to it at least
WakeTimeRule ==
    [][/\ Len(tickAt') = Len(tickAt) + 1 => next' = next + 2
       /\ ticks' = ticks + 1 =>
             IF clock >= next
             THEN next' = clock /\ clock' = clock
             ELSE next' = next /\ clock' >= next]_vars

\* the m-th tick after an overrun detected at time N starts at
\* N + (m - 1) periods or later
SpacedAfterOverrun ==
    \A o \in 1..Len(overruns) :
        \A m \in 1..(Len(tickAt) - overruns[o].after) :
            tickAt[overruns[o].after + m] >= overruns[o].at + (m - 1) * 2

\* C22 as stated (SpecTimed): the wake-time rule, no burst after an overrun,
\* and the k-th tick starting k periods after the pacer's start (at clock
\* reading 0) or later.
PacerNeverBurstsFromOne ==
    /\ WakeTimeRule
    /\ [](SpacedAfterOverrun /\ \A k \in 1..Len(tickAt) : tickAt[k] >= k * 2)

\* C22 amended (SpecTimed): the wake-time rule, no burst after an overrun,
\* and the k-th tick starting k - 1 periods after the pacer's start or
\* later: the first tick starts at once.
PacerNeverBursts ==
    /\ WakeTimeRule
    /\ [](SpacedAfterOverrun /\ \A k \in 1..Len(tickAt) : tickAt[k] >= (k - 1) * 2)

\* C22 witness: the first iteration ended two periods after the start, one
\* period behind its wake time; the second tick started then and the third
\* exactly one period later
NoBurstWitness ==
    /\ Len(tickAt) = 3
    /\ overruns = <<[after |-> 1, at |-> 4]>>
    /\ tickAt = <<0, 4, 6>>

\* ------------------------------------------------------------------------
\* SpecLocks: the capture threads and the pacer of either sender sharing
\* the snapshot locks, the first device producing MaxEvents events and the
\* second, if there is one, none. The scheduler runs every thread that can
\* take a step; a device need not produce its events.
\* ------------------------------------------------------------------------

\* the steps of device k's capture thread between the return of its fetch
\* and the next fetch
UpdateOf(k) ==
    /\ k \in Devs
    /\ \/ InputSkip(k)
       \/ InputLock(k)
       \/ InputWrite(k)
       \/ InputBump(k)
       \/ InputUnlock(k)

InitLocks ==
    /\ \E cfg \in {[v |-> "single", ord |-> <<0>>], [v |-> "multi", ord |-> <<1, 2>>]} :
          InitProgram(cfg.v, cfg.ord, RangeTableA, U64Zero, [done |-> 0, stale |-> {}],
                      TwoEvents,
                      [k \in {cfg.ord[i] : i \in 1..Len(cfg.ord)} |->
                          IF k = cfg.ord[1] THEN MaxEvents ELSE 0],
                      FALSE, Continuous(U32Max), TRUE)
    /\ IdleHarness

NextLocks == Capture \/ Pacer

SpecLocks ==
    /\ InitLocks
    /\ [][NextLocks]_vars
    /\ WF_vars(Pacer)
    /\ \A k \in AllDevs : WF_vars(UpdateOf(k))

\* a lock is held by the pacer only across the copy of that device's
\* snapshot, and by a capture thread only across the update of one event:
\* not in a fetch, an encode, a send or a sleep
HeldOnlyToCopyOrUpdate ==
    \A k \in Devs :
        /\ lock[k] = "sender" => (senderPc = "copy" /\ order[devIdx] = k)
        /\ lock[k] = "input" => inputPc[k] \in {"locked", "bump", "unlock"}
        /\ senderPc \in {"tick", "lock", "encode", "send", "pace"} => lock[k] # "sender"
        /\ inputPc[k] \in {"fetch", "match"} => lock[k] # "input"

\* the pacer's step with a lock held is the copy, which releases it; while
\* a capture thread holds its lock it takes no further event, and its
\* steps lead to the release: at most three of them
ReleasedAtOnce ==
    [][\A k \in Devs :
          /\ (lock[k] = "sender" /\ senderPc' # senderPc)
                => (lock'[k] = "free" /\ snapshot' = shared[k] /\ senderPc' = "encode")
          /\ lock[k] = "input" => (ev'[k] = ev[k] /\ evLeft'[k] = evLeft[k])
          /\ (lock[k] = "input" /\ inputPc'[k] # inputPc[k])
                => \/ inputPc[k] = "locked" /\ inputPc'[k] \in {"bump", "unlock"}
                   \/ inputPc[k] = "bump" /\ inputPc'[k] = "unlock"
                   \/ inputPc[k] = "unlock" /\ lock'[k] = "free"]_vars

\* whoever asks for a lock gets it
LockGrantedInTheEnd ==
    /\ \A k \in AllDevs :
          (k \in Devs /\ inputPc[k] = "match" /\ TakesLock(ev[k])) ~> (k \in Devs /\ lock[k] = "input")
    /\ (senderPc = "lock") ~> (senderPc = "copy")

\* C23 (SpecLocks): no lock is held across a blocking operation; a thread
\* waiting for a lock waits for one snapshot copy or one event update; and
\* neither the capture threads nor the pacer wait for ever.
NoBlockingUnderLock ==
    /\ []HeldOnlyToCopyOrUpdate
    /\ ReleasedAtOnce
    /\ LockGrantedInTheEnd

\* C23 witness: the pacer is at shared.lock() for a device whose capture
\* thread holds the lock for its second event, after a first tick
NoBlockingWitness ==
    /\ senderPc = "lock"
    /\ ticks = 1
    /\ lock[order[devIdx]] = "input"
    /\ inputPc[order[devIdx]] = "bump"
    /\ evLeft[order[devIdx]] = 0

\* C24 (SpecRecv): every iteration of the receive loop adds one to received
\* and to exactly one of applied, bad, dup and ooo, so that
\* received = applied + bad + dup + ooo at all times, and last_seq is Some
\* exactly when applied > 0.
ClassifiedOnce ==
    /\ [](/\ stats.received = stats.applied + stats.bad + stats.dup + stats.ooo
          /\ IsSome(last_seq) <=> stats.applied > 0)
    /\ [][RecvStep =>
            \E c \in {"applied", "bad", "dup", "ooo"} :
                /\ stats'[c] = stats[c] + 1
                /\ \A o \in {"applied", "bad", "dup", "ooo"} \ {c} : stats'[o] = stats[o]]_vars

\* C24 witness: three datagrams were received; one was applied, one was out
\* of order and one was bad
ClassifiedWitness ==
    /\ stats.received = 3
    /\ stats.applied = 1
    /\ stats.ooo = 1
    /\ stats.bad = 1
    /\ IsSome(last_seq)

\* ------------------------------------------------------------------------
\* SpecStream: the receiver alone, tracking the sequence number p of a first
\* frame, then taking frames of a sender that numbers them consecutively
\* from some s on (s = 0: the sender restarted), each delivered once and in
\* order. The run ends after the second frame of the stream that was
\* applied, or after StreamCap datagrams.
\* ------------------------------------------------------------------------

\* datagrams the receive loop takes in a run of the stream
StreamCap == 32775

\* the frame with sequence number seq: bytes 6..8 of encode_vkb2's frame
StreamBase == Frame(0, ButtonsOf({1}))

StreamFrame(seq) == [StreamBase EXCEPT ![7] = ToLeBytes(seq)[1], ![8] = ToLeBytes(seq)[2]]

\* the tracked numbers p
TrackedSeqs == {5, 65535}

\* how far ahead of p the stream starts, mod 65536
StreamOffsets == {0, 1, 32768, 65531, 65535}

InitStream ==
    /\ \E p \in TrackedSeqs :
          InitProgramAt("tick", NoFaults, "single", <<0>>, RangeTableA, U64Zero,
                        [done |-> p + 1, stale |-> {p}], FewEvents, [k \in {0} |-> 0],
                        FALSE, Continuous(U32Max), TRUE)
    /\ IdleHarness

\* the next frame of the stream arrives
StreamNext ==
    /\ net = {}
    /\ stats.received >= 1
    /\ stats.received < StreamCap
    /\ stats.applied < 3
    /\ \E seq \in IF stats.received = 1
                  THEN {(Unwrap(last_seq) + off) % U16 : off \in StreamOffsets}
                  ELSE {WrapInc16(rx.pkt.seq)} :
          net' = {[dev |-> 0, idx |-> rx.dg.idx + 1, bytes |-> StreamFrame(seq)]}
    /\ UNCHANGED <<senderVars, envVars, rxVars, capHist, sendHist, rxHist, fnVars>>

StreamReceive == \E d \in net : ReceiveOne(d, FALSE, 0)

NextStream == StreamNext \/ StreamReceive

SpecStream == InitStream /\ [][NextStream]_vars

\* C25 (SpecStream): of the frames of the stream at most 32769 are rejected
\* as duplicate or out of order before one is applied, and once one was
\* applied every later one is applied.
GateRecovers ==
    /\ [](stats.applied = 1 => stats.dup + stats.ooo <= 32769)
    /\ [](stats.bad = 0 /\ stats.received = stats.applied + stats.dup + stats.ooo)
    /\ [][(RecvStep /\ stats.applied >= 2) => AppliedNow]_vars

\* C25 witness: the receiver tracked p = 5 when the sender restarted at 0;
\* frames 0..4 were rejected as out of order and frame 5 as a duplicate, and
\* frames 6 and 7 were applied
GateRecoversWitness ==
    /\ stats.ooo = 5
    /\ stats.dup = 1
    /\ stats.applied = 3
    /\ last_seq = Some(7)
    /\ rx.prev = Some(6)

=============================================================================
